---- MODULE Spec2Model ----
(***************************************************************************)
(* Echo: anonymous salary and review ledgers.                              *)
(*                                                                         *)
(* The model follows EchoAPI (src/src/dapp/providers.ts).  While no        *)
(* deployment is configured every operation runs against the in-memory     *)
(* local simulation (localOrg, localSalary, localReview); once a           *)
(* deployment is set the operation is a call of a circuit of one of the    *)
(* three contracts (orgLedger, salaryLedger, reviewLedger).  The Compact   *)
(* sources of the contracts are not part of the sources at hand; the       *)
(* circuits are modelled from the design description (sections 4.1-4.4).   *)
(***************************************************************************)
EXTENDS Integers, Sequences, FiniteSets, TLC

\* ------------------------------------------------------------------ bounds
\* calls accepted in one behaviour that advance a round or claim a receipt
MaxRound == 3
\* of these calls, those the local simulation accepts before a deployment is joined
MaxLocalFirst == 0
\* how many appends behind the latest a root may be and still be retained
RootWindow == 1
\* how many values the random source can produce, and how many tokens are drawn
NumRandom == 4
MaxTokens == 3
\* how many notifications the pages add in one run
MaxNotifs == 7
\* how many times the user clicks, submits or reloads in one run
MaxUserSteps == 5

\* --------------------------------------------------------- program constants
NumBands == 5
\* NotificationToast shows the last five notifications
ToastWindow == 5
NumScores == 5
FirstPeriod == 1
FirstAnonId == 1

Categories == {"culture", "compensation", "management", "workLifeBalance", "careerGrowth"}
Role == {"ADMIN", "HR", "EMPLOYEE", "AUDITOR"}
Modes == {"local", "chain"}

\* identities: 1 is the employee the organization pays, 2 holds a key of its
\* own and is never paid
EmployeeIds == {1, 2}
Members == {1}
HrKeys == {301}
\* digests: a commitment and a nullifier of an identity are distinct opaque values
Commit(e) == 100 + e
Nullifier(e) == 200 + e
Commitments == {Commit(e) : e \in Members}
Nullifiers == {Nullifier(e) : e \in Members}
\* the commitments offered for onboarding: two, so that the order of leaves shows
OnboardInputs == {Commit(e) : e \in EmployeeIds}

\* who signs a transaction: the auditor, like the employee, is neither the
\* admin nor an approver
Callers == [role : {"ADMIN", "EMPLOYEE"}, key : {0}] \cup [role : {"HR"}, key : HrKeys]

\* salaryBand arguments: below, inside, at the end of and above 1..5
BandInputs == {0, 2, 5, 6}
\* amount arguments: one amount, which adding and counting tell apart
AmountInputs == {2}
Ratings(cu, co, ma, wl, cg) ==
  [c \in Categories |-> CASE c = "culture" -> cu [] c = "compensation" -> co
                           [] c = "management" -> ma [] c = "workLifeBalance" -> wl
                           [] OTHER -> cg]
\* ratings arguments, every score in 1..5: the scenario of the design
\* description and one with five different scores
RatingInputs == {Ratings(5, 4, 3, 4, 5), Ratings(2, 5, 1, 3, 4)}
\* bounds of proveSalaryRange: every band, and the lower bands only
\* amounts typed into the salary page: below zero, zero, and either side of
\* each band limit
BandLimits == <<500000, 1500000, 3000000, 5000000>>
PageAmounts == {0 - 1, 0} \cup {BandLimits[i] - 1 : i \in 1..4} \cup {BandLimits[i] : i \in 1..4}
RangeInputs == {<<1, 5>>, <<1, 3>>}
\* a review token: its owner and the payment whose receipt issued it
Token(e, p) == [owner |-> e, serial |-> p]
\* a token no receipt issued
ForgedToken == Token(1, 0)

\* what crypto.getRandomValues can fill the 32 bytes with
Randomness == 1..NumRandom
\* the payment records a SalaryPrivateState may hold (commitment -> payment data)
PaymentInputs == {[period |-> FirstPeriod, randomness |-> NumRandom + 1, amount |-> 2],
                  [period |-> FirstPeriod + 1, randomness |-> NumRandom + 2, amount |-> 3]}
PrivateStates ==
  {[employeeSecretKey |-> e, payments |-> q] :
     e \in Members,
     q \in {<<>>} \cup {<<a>> : a \in PaymentInputs}
          \cup {<<a, b>> : a \in PaymentInputs, b \in PaymentInputs}}

Min(a, b) == IF a < b THEN a ELSE b
Max(a, b) == IF a > b THEN a ELSE b

VARIABLES
  deployment,        \* "null" | "set"               EchoAPI.deployment
  wallet,            \* "null" | "set"               EchoAPI.wallet
  localOrg,          \* EchoAPI._localOrg
  localSalary,       \* EchoAPI._localSalary
  localReview,       \* EchoAPI._localReview
  publishedReviews,  \* EchoAPI._publishedReviews
  nextAnonId,        \* EchoAPI._nextAnonId
  periodTrends,      \* EchoAPI._periodTrends
  orgLedger,         \* organization contract, public ledger state
  salaryLedger,      \* salary contract, public ledger state
  reviewLedger,      \* review contract, public ledger state
  persisted,         \* localStorage item "echo_local_state"
  handles,           \* which of orgContract, salaryContract, reviewContract are stored
  heldProof,         \* the membership path a prover built and has not yet submitted
  tokenRun,          \* the salary witnesses' private state and the tokens derived from them
  lastCall,          \* the latest call: operation, public arguments, outcome
  hist,              \* history of the accepted calls, per mode
  notifications,     \* useAppStore.notifications, as the ids in list order
  nextNotifId,       \* the id the next addNotification generates
  toastsMounted,     \* whether NotificationToast is on screen (AuthGuard renders its children)
  toastTimers,       \* the mounted Toasts' pending timers, in the order they were started
  toastLog,          \* history of the notifications: queued unseen, auto-dismissed, clicked, ever on screen
  witnessRun,        \* a run of witness calls: the private state given, the one held now, the latest call
  connectPc,         \* "idle", or the handle a connectToDeployment in progress is awaiting
  store,             \* useAppStore: the auth and wallet fields
  sessionItem,       \* whether localStorage holds a valid "echo_session"
  pathname,          \* usePathname()
  pendingNav,        \* the target of a router.push / replace not yet completed, or "none"
  connectRun,        \* "idle", or what a handleConnect in progress is awaiting
  uiLog              \* history of the user: steps taken, signed in, wallet reset since the last connect

apiVars == <<deployment, wallet, localOrg, localSalary, localReview, publishedReviews, nextAnonId, periodTrends>>
chainVars == <<orgLedger, salaryLedger, reviewLedger>>
\* the state of the web application around the EchoAPI: the store and its components
toastVars == <<notifications, nextNotifId, toastsMounted, toastTimers, toastLog>>
sessionVars == <<store, sessionItem, pathname, pendingNav, connectRun, uiLog>>
appVars == <<toastVars, witnessRun, connectPc, sessionVars>>
\* the EchoAPI instance, the ledgers and the history of its calls
coreVars == <<apiVars, chainVars, persisted, handles, heldProof, tokenRun, lastCall, hist>>
\* what a step of the notifications leaves alone
toastFrame == <<coreVars, witnessRun, connectPc, sessionVars>>
\* what a witness call leaves alone
witnessFrame == <<coreVars, toastVars, connectPc, sessionVars>>
\* what a step of the session leaves alone
sessionFrame == <<coreVars, toastVars, witnessRun, connectPc>>
vars == <<deployment, wallet, localOrg, localSalary, localReview, publishedReviews, nextAnonId,
          periodTrends, orgLedger, salaryLedger, reviewLedger, persisted, handles, heldProof, tokenRun, lastCall, hist,
          appVars>>

\* an optional field that is not set (undefined)
Unset == 0

ZeroCounters == [i \in 0..4 |-> 0]

\* saveLocalState({org, salary, review, publishedReviews, periodTrends, nextAnonId})
persistLocal ==
  [org |-> localOrg, salary |-> localSalary, review |-> localReview,
   publishedReviews |-> publishedReviews, periodTrends |-> periodTrends,
   nextAnonId |-> nextAnonId]

\* ------------------------------------------------- local simulation: defaults
makeDefaultLocalOrg ==
  [employeeCount |-> 0, hrOperatorCount |-> 0, auditorCount |-> 0, round |-> 0,
   status |-> "ACTIVE", employees |-> <<>>, hrOperators |-> <<>>]

makeDefaultLocalSalary ==
  [totalPaymentsProcessed |-> 0, totalPayrollAmount |-> 0, currentPeriod |-> FirstPeriod,
   activeDisputes |-> 0, bands |-> ZeroCounters, round |-> 0]

makeDefaultLocalReview ==
  [totalReviews |-> 0, currentReviewPeriod |-> FirstPeriod, round |-> 0,
   ratingCounters |-> [c \in Categories |-> ZeroCounters]]

\* ------------------------------------------------ contracts: deployed state
InitOrgLedger ==
  [employeeTree |-> <<>>, approverTree |-> <<>>, revokedSet |-> {}, employeeCount |-> 0,
   round |-> 0, status |-> "ACTIVE"]

InitSalaryLedger ==
  [paymentTree |-> <<>>, receiptNullifierSet |-> {}, tokenCommitmentOutbox |-> <<>>,
   bands |-> ZeroCounters, totalProcessed |-> 0, totalAmount |-> 0,
   currentPeriod |-> FirstPeriod, round |-> 0]

InitReviewLedger ==
  [importedTokenTree |-> <<>>, reviewNullifierSet |-> {},
   ratingCounters |-> [c \in Categories |-> ZeroCounters], totalReviews |-> 0,
   currentPeriod |-> FirstPeriod, round |-> 0]

NoProof == [e |-> 0, index |-> 0, root |-> 0]

\* privateState: the SalaryPrivateState of the prover; issued: the token
\* commitments derived so far; drawn: what the random source has produced;
\* twinPrivateState, twinIssued: the same of the run that holds other
\* payments and sees the same random source
StartTokenRun(ps, twin) ==
  [privateState |-> ps, issued |-> <<>>, drawn |-> {},
   twinPrivateState |-> twin, twinIssued |-> <<>>]

NoPrivateState == [employeeSecretKey |-> 1, payments |-> <<>>]

NoCall == [op |-> "none", arg |-> <<>>, result |-> "ok"]

\* paid: per mode, how many accepted payments named each band; claimed / reclaimed: the receipts
\* (mode, payee, payment) confirmed at least once / at least twice; issued:
\* the review tokens issued; offboarded: the nullifiers revoked; reviewed /
\* rereviewed: the (mode, token, period) reviewed at least once / twice;
\* twinSalary: this._localSalary of the run that makes the same calls with
\* every payment's amount replaced by TwinAmount of it; pagePaid: the
\* (amount, band) of the payments the salary page has sent
InitHist == [paid |-> [m \in Modes |-> [b \in BandInputs |-> 0]], claimed |-> {}, reclaimed |-> {}, issued |-> {},
             offboarded |-> {}, reviewed |-> {}, rereviewed |-> {},
             twinSalary |-> makeDefaultLocalSalary, pagePaid |-> {}]

\* the review tokens a private state may hold (token commitment -> token data)
ReviewTokenInputs == {[period |-> FirstPeriod, randomness |-> NumRandom + 3],
                      [period |-> FirstPeriod + 1, randomness |-> NumRandom + 4]}
WitnessKeys == {Unset, 1}
\* the private states of the three contracts, as one record: the secret
\* keys are optional, the Maps are listed in insertion order
WitnessStates ==
  [adminSecretKey : WitnessKeys, hrSecretKey : WitnessKeys, employeeSecretKey : WitnessKeys,
   payments : {<<>>} \cup {<<a>> : a \in PaymentInputs}
              \cup {<<a, b>> : a \in PaymentInputs, b \in PaymentInputs},
   reviewTokens : {<<>>} \cup {<<t>> : t \in ReviewTokenInputs}]
\* the Merkle trees of the three ledgers and the leaves asked for
TreeNames == {"employees", "hrOperators", "paymentCommitments", "verifiedEmployeeTokens"}
WitnessLedgers ==
  {[t \in TreeNames |-> IF t \in full THEN <<12, 11>> ELSE <<>>] :
     full \in {{}, {"employees", "verifiedEmployeeTokens"},
               {"hrOperators", "paymentCommitments"}, TreeNames}}
LeafInputs == {11, 13}
NoWitnessState == [adminSecretKey |-> Unset, hrSecretKey |-> Unset, employeeSecretKey |-> Unset,
                   payments |-> <<>>, reviewTokens |-> <<>>]
NoWitnessLedger == [t \in TreeNames |-> <<>>]
NoWitness == <<"none", "none">>
StartWitnessRun(ps, ledger) ==
  [given |-> ps, privateState |-> ps, ledger |-> ledger,
   witness |-> NoWitness, arg |-> Unset, threw |-> FALSE, value |-> <<>>]

InitToastLog == [queued |-> {}, auto |-> {}, clicked |-> {}, everShown |-> FALSE]

defaultWallet == [isConnected |-> FALSE, isConnecting |-> FALSE]
\* create<AppState>: the initial auth and wallet fields
InitStore ==
  [user |-> "null", isAuthenticated |-> FALSE, authHydrated |-> FALSE,
   wallet |-> defaultWallet, walletApi |-> "null", deployment |-> "null"]
InitUiLog == [steps |-> 0, signedIn |-> FALSE, walletReset |-> FALSE]

\* useAppStore's initial state, before any component has mounted: the
\* application has just been opened at "/" by somebody not signed in
AppInit ==
  /\ store = InitStore
  /\ sessionItem = FALSE
  /\ pathname = "/"
  /\ pendingNav = "none"
  /\ connectRun = "idle"
  /\ uiLog = InitUiLog
  /\ notifications = <<>>
  /\ nextNotifId = 1
  /\ toastsMounted = FALSE
  /\ toastTimers = <<>>
  /\ toastLog = InitToastLog
  /\ connectPc = "idle"

Init ==
  /\ deployment = "null"
  /\ wallet = "null"
  /\ localOrg = makeDefaultLocalOrg
  /\ localSalary = makeDefaultLocalSalary
  /\ localReview = makeDefaultLocalReview
  /\ publishedReviews = <<>>
  /\ nextAnonId = FirstAnonId
  /\ periodTrends = <<>>
  /\ orgLedger = InitOrgLedger
  /\ salaryLedger = InitSalaryLedger
  /\ reviewLedger = InitReviewLedger
  /\ persisted = persistLocal
  /\ handles = {}
  /\ heldProof = NoProof
  /\ tokenRun = StartTokenRun(NoPrivateState, NoPrivateState)
  /\ lastCall = NoCall
  /\ hist = InitHist
  /\ AppInit
  /\ witnessRun = StartWitnessRun(NoWitnessState, NoWitnessLedger)

Mode == IF deployment = "null" THEN "local" ELSE "chain"
TotalRounds == localOrg.round + localSalary.round + localReview.round
               + orgLedger.round + salaryLedger.round + reviewLedger.round
\* the local confirmSalaryReceipt advances no round: its claims are counted
LocalClaims == Cardinality({x \in hist.claimed : x[1] = "local"})
               + Cardinality({x \in hist.reclaimed : x[1] = "local"})
CanCall == TotalRounds + LocalClaims < MaxRound
Called(op, arg, result) == [op |-> op, arg |-> arg, result |-> result]

Range(q) == {q[i] : i \in 1..Len(q)}

ContractNames == {"orgContract", "salaryContract", "reviewContract"}

\* a faulty variant: the wallet is not looked at
setupProviders_NoCheck(w) == "ok"

\* if (!this.wallet) throw new Error("Wallet not connected. Call setWallet() first.")
setupProviders(w) == IF w = "null" THEN "WalletNotConnected" ELSE "ok"

\* a faulty variant: the randomness of the latest payment held, as the
\* witness paymentRandomness returns it
reviewTokenRandomness_OfPayment(privateState, entropy) ==
  [privateState |-> privateState,
   value |-> IF privateState.payments = <<>> THEN 0
             ELSE privateState.payments[Len(privateState.payments)].randomness]

\* crypto.getRandomValues(randomness); return [context.privateState, randomness]:
\* entropy is what the random source produces
reviewTokenRandomness(privateState, entropy) ==
  [privateState |-> privateState, value |-> entropy]

\* a faulty variant: the path is built against the empty tree's root
findEmployeePath_OldRoot(ledger, e) ==
  IF Commit(e) \in Range(ledger.employeeTree)
  THEN [e |-> e, index |-> 1, root |-> 0]
  ELSE NoProof

\* context.ledger.employees.findPathForLeaf(pk): the path of the leaf in the
\* ledger the witness is handed, or none ("Employee not found in tree")
findEmployeePath(ledger, e) ==
  IF Commit(e) \in Range(ledger.employeeTree)
  THEN [e |-> e,
        index |-> CHOOSE i \in 1..Len(ledger.employeeTree) :
                    /\ ledger.employeeTree[i] = Commit(e)
                    /\ \A j \in 1..(i - 1) : ledger.employeeTree[j] # Commit(e),
        root |-> Len(ledger.employeeTree)]
  ELSE NoProof

\* ------------------------------------------------------------------------
\* The witnesses of the three contracts.  A witness is handed a context
\* (privateState, ledger) and returns [privateState, value] or throws.
\* ------------------------------------------------------------------------
Return(privateState, value) == [threw |-> FALSE, privateState |-> privateState, value |-> value]
Throw(message) == [threw |-> TRUE, error |-> message]

\* adminSecretKey, hrSecretKey, employeeSecretKey, of each contract
secretKeyWitness(privateState, key) ==
  IF privateState[key] = Unset
  THEN Throw("secret key not set in private state")
  ELSE Return(privateState, privateState[key])

\* a faulty variant: the payment read is taken out of the private state
lastPaymentWitness_ConsumesPayment(privateState, field) ==
  IF Len(privateState.payments) = 0
  THEN Throw("No payment data in private state")
  ELSE Return([privateState EXCEPT !.payments = SubSeq(@, 1, Len(@) - 1)],
              privateState.payments[Len(privateState.payments)][field])

\* salaryAmount, paymentPeriod, paymentRandomness: of the last payment held
lastPaymentWitness(privateState, field) ==
  IF Len(privateState.payments) = 0
  THEN Throw("No payment data in private state")
  ELSE Return(privateState, privateState.payments[Len(privateState.payments)][field])

\* reviewPeriod and the review contract's reviewTokenRandomness: of the last token held
lastTokenWitness(privateState, field) ==
  IF Len(privateState.reviewTokens) = 0
  THEN Throw("No review tokens in private state")
  ELSE Return(privateState, privateState.reviewTokens[Len(privateState.reviewTokens)][field])

\* tree.findPathForLeaf(leaf), where the leaf is in the tree
findPathForLeaf(tree, leaf) ==
  [leaf |-> leaf, index |-> CHOOSE i \in 1..Len(tree) : tree[i] = leaf]

\* findEmployeePath, findHrPath, findPaymentPath, findReviewTokenPath
pathWitness(privateState, tree, leaf) ==
  IF leaf \notin Range(tree)
  THEN Throw("not found in tree")
  ELSE Return(privateState, findPathForLeaf(tree, leaf))

KeyWitnesses == {"adminSecretKey", "hrSecretKey", "employeeSecretKey"}
PaymentWitnesses == {"salaryAmount", "paymentPeriod", "paymentRandomness"}
\* the field of the payment, the token or the ledger a witness reads
WitnessField(name) ==
  CASE name = "salaryAmount" -> "amount"
    [] name = "paymentPeriod" -> "period"
    [] name = "paymentRandomness" -> "randomness"
    [] name = "reviewPeriod" -> "period"
    [] name = "reviewTokenRandomness" -> "randomness"
    [] name = "findEmployeePath" -> "employees"
    [] name = "findHrPath" -> "hrOperators"
    [] name = "findPaymentPath" -> "paymentCommitments"
    [] name = "findReviewTokenPath" -> "verifiedEmployeeTokens"

\* the witnesses createOrganizationWitnesses, createSalaryWitnesses and
\* createReviewWitnesses return
Witnesses ==
  ({"organization"} \X {"adminSecretKey", "hrSecretKey", "employeeSecretKey",
                        "findEmployeePath", "findHrPath"})
  \cup ({"salary"} \X {"adminSecretKey", "employeeSecretKey", "salaryAmount", "paymentPeriod",
                       "paymentRandomness", "reviewTokenRandomness", "findPaymentPath"})
  \cup ({"review"} \X {"adminSecretKey", "employeeSecretKey", "reviewPeriod",
                       "reviewTokenRandomness", "findReviewTokenPath"})

\* what the witness w returns or throws, given the context, its argument
\* (the path witnesses) and what the random source produces
witness(w, privateState, ledger, arg, entropy) ==
  CASE w[2] \in KeyWitnesses -> secretKeyWitness(privateState, w[2])
    [] w[2] \in PaymentWitnesses -> lastPaymentWitness(privateState, WitnessField(w[2]))
    [] w = <<"salary", "reviewTokenRandomness">> ->
         LET r == reviewTokenRandomness(privateState, entropy)
         IN Return(r.privateState, r.value)
    [] w[1] = "review" /\ w[2] \in {"reviewPeriod", "reviewTokenRandomness"} ->
         lastTokenWitness(privateState, WitnessField(w[2]))
    [] OTHER -> pathWitness(privateState, ledger[WitnessField(w[2])], arg)

\* ------------------------------------------------------------------------
\* EchoAPI, local simulation: the state changes of each operation
\* ------------------------------------------------------------------------
localAddHrOperator(o, hrPublicKey) ==
  [o EXCEPT !.hrOperators = Append(@, hrPublicKey),
            !.hrOperatorCount = @ + 1,
            !.round = @ + 1]

localOnboardEmployee(o, employeeCommitment) ==
  [o EXCEPT !.employees = Append(@, employeeCommitment),
            !.employeeCount = @ + 1,
            !.round = @ + 1]

\* a faulty variant: offboarding drops the last leaf of the employee list
localOffboardEmployee_RemovesLeaf(o, employeeNullifier) ==
  [o EXCEPT !.employees = SubSeq(@, 1, Len(@) - 1),
            !.employeeCount = IF @ > 0 THEN @ - 1 ELSE @,
            !.round = @ + 1]

\* the nullifier is not looked at
localOffboardEmployee(o, employeeNullifier) ==
  [o EXCEPT !.employeeCount = IF @ > 0 THEN @ - 1 ELSE @,
            !.round = @ + 1]

\* "local simulation - always succeeds"
localProveEmployment(o) == TRUE

\* a faulty variant: the band used as the index, without the offset
bandIdx_NoOffset(salaryBand) == Max(0, Min(4, salaryBand))

\* Math.max(0, Math.min(4, params.salaryBand - 1))
bandIdx(salaryBand) == Max(0, Min(4, salaryBand - 1))

\* a faulty variant: the second and third bands are the wrong way round
deriveSalaryBand_SwappedBands(amount) ==
  IF amount < BandLimits[1] THEN 1
  ELSE IF amount < BandLimits[2] THEN 3
  ELSE IF amount < BandLimits[3] THEN 2
  ELSE IF amount < BandLimits[4] THEN 4
  ELSE 5

\* the salary page: Number(amount) < 500000 ? 1 : Number(amount) < 1500000 ? 2
\* : Number(amount) < 3000000 ? 3 : Number(amount) < 5000000 ? 4 : 5
deriveSalaryBand(amount) ==
  IF amount < BandLimits[1] THEN 1
  ELSE IF amount < BandLimits[2] THEN 2
  ELSE IF amount < BandLimits[3] THEN 3
  ELSE IF amount < BandLimits[4] THEN 4
  ELSE 5

\* a faulty variant: every payment opens a new period
localProcessSalaryPayment_NewPeriod(s, amount, salaryBand) ==
  [s EXCEPT !.totalPaymentsProcessed = @ + 1,
            !.totalPayrollAmount = @ + amount,
            !.bands[bandIdx(salaryBand)] = @ + 1,
            !.currentPeriod = @ + 1,
            !.round = @ + 1]

localProcessSalaryPayment(s, amount, salaryBand) ==
  [s EXCEPT !.totalPaymentsProcessed = @ + 1,
            !.totalPayrollAmount = @ + amount,
            !.bands[bandIdx(salaryBand)] = @ + 1,
            !.round = @ + 1]

\* a faulty variant: the proof counted as a transition of the ledger
localProveSalaryRange_CountsRound(s, lowerBound, upperBound) ==
  [salary |-> [s EXCEPT !.round = @ + 1], result |-> TRUE]

\* "local simulation - always succeeds": this._localSalary as the call
\* leaves it, and what the call returns
localProveSalaryRange(s, lowerBound, upperBound) ==
  [salary |-> s, result |-> TRUE]

\* "local simulation - always succeeds, always issues review token"
localConfirmSalaryReceipt == [reviewTokenIssued |-> TRUE]

\* counters.reduce((a, b) => a + b, 0) and
\* counters.reduce((sum, count, idx) => sum + count * (idx + 1), 0)
RECURSIVE sumCounters(_, _)
sumCounters(counters, upTo) ==
  IF upTo < 0 THEN 0 ELSE counters[upTo] + sumCounters(counters, upTo - 1)

RECURSIVE weightedCounters(_, _)
weightedCounters(counters, upTo) ==
  IF upTo < 0 THEN 0 ELSE counters[upTo] * (upTo + 1) + weightedCounters(counters, upTo - 1)

RECURSIVE prodTotals(_, _, _)
prodTotals(rc, cats, skip) ==
  IF cats = {} THEN 1
  ELSE LET c == CHOOSE x \in cats : TRUE
       IN (IF c = skip THEN 1 ELSE sumCounters(rc[c], 4)) * prodTotals(rc, cats \ {c}, skip)

RECURSIVE sumOver(_, _, _)
sumOver(rc, cats, all) ==
  IF cats = {} THEN 0
  ELSE LET c == CHOOSE x \in cats : TRUE
       IN weightedCounters(rc[c], 4) * prodTotals(rc, all, c) + sumOver(rc, cats \ {c}, all)

\* computeLocalAvgRating / computeOverallAvgFromLedger followed by
\* Math.round(avgRating * 10) / 10: the mean, over the categories that have a
\* rating, of the category's weighted mean; the value is kept in tenths.
\* With rated == the rated categories, the mean is num / den exactly.
avgRatingTenths(rc) ==
  LET rated == {c \in Categories : sumCounters(rc[c], 4) > 0}
      num == sumOver(rc, rated, rated)
      den == Cardinality(rated) * prodTotals(rc, rated, "none")
  IN IF rated = {} THEN 0 ELSE (20 * num + den) \div (2 * den)

\* the snapshot advancePeriod takes of the period that ends
trendEntry(currentPeriodNum, payments, reviews, rc) ==
  [period |-> currentPeriodNum, payments |-> payments, reviews |-> reviews,
   avgRating |-> avgRatingTenths(rc)]

\* findIndex by period, then replace in place or push
snapshotTrend(trends, entry) ==
  IF \E i \in 1..Len(trends) : trends[i].period = entry.period
  THEN LET existingIdx == CHOOSE i \in 1..Len(trends) :
                             /\ trends[i].period = entry.period
                             /\ \A j \in 1..(i - 1) : trends[j].period # entry.period
       IN [trends EXCEPT ![existingIdx] = entry]
  ELSE Append(trends, entry)

\* faulty variants: per-period counters, reset when the period is advanced
localAdvancePeriod_ResetsReviews(s, r) ==
  [salary |-> [s EXCEPT !.currentPeriod = @ + 1,
                        !.round = @ + 1],
   review |-> [r EXCEPT !.totalReviews = 0,
                        !.ratingCounters = [c \in Categories |-> ZeroCounters]]]

localAdvancePeriod_ResetsBands(s, r) ==
  [salary |-> [s EXCEPT !.currentPeriod = @ + 1,
                        !.bands = ZeroCounters,
                        !.round = @ + 1],
   review |-> r]

\* advancePeriod holds both this._localSalary (s) and this._localReview (r):
\* r is read for the snapshot, s is advanced
localAdvancePeriod(s, r) ==
  [salary |-> [s EXCEPT !.currentPeriod = @ + 1,
                        !.round = @ + 1],
   review |-> r]

\* a faulty variant: the management counter indexed by the compensation score
localSubmitReview_CopiedIndex(r, ratings) ==
  [r EXCEPT !.ratingCounters["culture"][ratings["culture"] - 1] = @ + 1,
            !.ratingCounters["compensation"][ratings["compensation"] - 1] = @ + 1,
            !.ratingCounters["management"][ratings["compensation"] - 1] = @ + 1,
            !.ratingCounters["workLifeBalance"][ratings["workLifeBalance"] - 1] = @ + 1,
            !.ratingCounters["careerGrowth"][ratings["careerGrowth"] - 1] = @ + 1,
            !.totalReviews = @ + 1,
            !.round = @ + 1]

localSubmitReview(r, ratings) ==
  [r EXCEPT !.ratingCounters["culture"][ratings["culture"] - 1] = @ + 1,
            !.ratingCounters["compensation"][ratings["compensation"] - 1] = @ + 1,
            !.ratingCounters["management"][ratings["management"] - 1] = @ + 1,
            !.ratingCounters["workLifeBalance"][ratings["workLifeBalance"] - 1] = @ + 1,
            !.ratingCounters["careerGrowth"][ratings["careerGrowth"] - 1] = @ + 1,
            !.totalReviews = @ + 1,
            !.round = @ + 1]

\* getSalaryState / getReviewState: the state as the front end reads it, from
\* the local simulation or from the ledger; band k and rating k are element
\* k - 1 of the counters
\* a faulty variant: with a deployment set, the payroll total is still the
\* local simulation's
getSalaryState_LocalPayroll(dep, s, ledger) ==
  [totalPaymentsProcessed |-> IF dep = "null" THEN s.totalPaymentsProcessed ELSE ledger.totalProcessed,
   totalPayrollAmount |-> s.totalPayrollAmount,
   currentPeriod |-> IF dep = "null" THEN s.currentPeriod ELSE ledger.currentPeriod,
   salaryBands |-> [k \in 1..NumBands |-> IF dep = "null" THEN s.bands[k - 1] ELSE ledger.bands[k - 1]],
   round |-> IF dep = "null" THEN s.round ELSE ledger.round]

\* getOrganizationState: hrOperatorCount is hrOperators.firstFree() of the ledger
getOrganizationState(dep, o, ledger) ==
  IF dep = "null"
  THEN [status |-> o.status, employeeCount |-> o.employeeCount, round |-> o.round,
        hrOperatorCount |-> o.hrOperatorCount]
  ELSE [status |-> ledger.status, employeeCount |-> ledger.employeeCount, round |-> ledger.round,
        hrOperatorCount |-> Len(ledger.approverTree)]

getSalaryState(dep, s, ledger) ==
  IF dep = "null"
  THEN [totalPaymentsProcessed |-> s.totalPaymentsProcessed,
        totalPayrollAmount |-> s.totalPayrollAmount,
        currentPeriod |-> s.currentPeriod,
        salaryBands |-> [k \in 1..NumBands |-> s.bands[k - 1]],
        round |-> s.round]
  ELSE [totalPaymentsProcessed |-> ledger.totalProcessed,
        totalPayrollAmount |-> ledger.totalAmount,
        currentPeriod |-> ledger.currentPeriod,
        salaryBands |-> [k \in 1..NumBands |-> ledger.bands[k - 1]],
        round |-> ledger.round]

getReviewState(dep, r, ledger) ==
  IF dep = "null"
  THEN [totalReviews |-> r.totalReviews,
        currentReviewPeriod |-> r.currentReviewPeriod,
        round |-> r.round,
        ratingAggregates |-> [c \in Categories |->
                                [k \in 1..NumScores |-> r.ratingCounters[c][k - 1]]]]
  ELSE [totalReviews |-> ledger.totalReviews,
        currentReviewPeriod |-> ledger.currentPeriod,
        round |-> ledger.round,
        ratingAggregates |-> [c \in Categories |->
                                [k \in 1..NumScores |-> ledger.ratingCounters[c][k - 1]]]]

\* the review kept off-chain; unshift puts it first
publishReview_KeepsLatest(reviews, anonId, period, ratings) ==
  <<[anonId |-> anonId, period |-> period, ratings |-> ratings, verified |-> TRUE]>>

publishReview(reviews, anonId, period, ratings) ==
  <<[anonId |-> anonId, period |-> period, ratings |-> ratings, verified |-> TRUE]>> \o reviews

\* ------------------------------------------------------------------------
\* The contracts' circuits (design description, sections 4.1 - 4.4).
\* Each yields the ledger after the transition and the outcome: "ok" or the
\* error kind; a rejected transition yields the ledger unchanged.
\* ------------------------------------------------------------------------
Accept(ledger) == [ledger |-> ledger, result |-> "ok"]
Reject(ledger, kind) == [ledger |-> ledger, result |-> kind]

IsAdmin(caller) == caller.role = "ADMIN"
IsApprover(org, caller) == caller.role = "HR" /\ caller.key \in Range(org.approverTree)

\* 4.1 Identity Registry
onboardMember(org, caller, commitment) ==
  IF ~(IsAdmin(caller) \/ IsApprover(org, caller)) THEN Reject(org, "Unauthorized")
  ELSE Accept([org EXCEPT !.employeeTree = Append(@, commitment),
                          !.employeeCount = @ + 1,
                          !.round = @ + 1])

offboardMember(org, caller, nullifier) ==
  IF ~(IsAdmin(caller) \/ IsApprover(org, caller)) THEN Reject(org, "Unauthorized")
  ELSE IF nullifier \in org.revokedSet THEN Reject(org, "AlreadyRevoked")
  ELSE Accept([org EXCEPT !.revokedSet = @ \cup {nullifier},
                          !.employeeCount = IF @ > 0 THEN @ - 1 ELSE @,
                          !.round = @ + 1])

addApprover(org, caller, pubkey) ==
  IF ~IsAdmin(caller) THEN Reject(org, "Unauthorized")
  ELSE Accept([org EXCEPT !.approverTree = Append(@, pubkey),
                          !.round = @ + 1])

proveMembership(org, e) ==
  IF /\ Commit(e) \in Range(org.employeeTree)
     /\ Nullifier(e) \notin org.revokedSet
     /\ org.status = "ACTIVE"
  THEN Accept(org) ELSE Reject(org, "ProofInvalid")

\* 4.1 (a) and section 5: a path is verified against the roots retained, the
\* latest and the RootWindow before it; a root is named by the number of
\* leaves the tree held when it was the latest
verifyMembership(org, proof) ==
  IF Len(org.employeeTree) - proof.root > RootWindow THEN Reject(org, "StaleRoot")
  ELSE IF /\ proof.index \in 1..proof.root
          /\ org.employeeTree[proof.index] = Commit(proof.e)
          /\ Nullifier(proof.e) \notin org.revokedSet
          /\ org.status = "ACTIVE"
       THEN Accept(org) ELSE Reject(org, "ProofInvalid")

\* 4.2 Payment Registry.  A band outside 1..5 has no counter: the transition
\* is rejected.  A leaf of the payment tree is a commitment that binds the
\* payee and the band.
processPayment(sal, org, caller, payeeCommitment, band) ==
  IF ~(IsAdmin(caller) \/ IsApprover(org, caller)) THEN Reject(sal, "Unauthorized")
  ELSE IF band \notin 1..NumBands THEN Reject(sal, "ProofInvalid")
  ELSE Accept([sal EXCEPT !.paymentTree = Append(@, [payee |-> payeeCommitment, band |-> band]),
                          !.bands[band - 1] = @ + 1,
                          !.totalProcessed = @ + 1,
                          !.round = @ + 1])

\* the payee e opens leaf p of the payment tree; the token carries randomness
\* not used before (its serial number)
confirmReceipt(sal, e, p) ==
  IF ~(p \in 1..Len(sal.paymentTree) /\ sal.paymentTree[p].payee = Commit(e))
  THEN Reject(sal, "ProofInvalid")
  ELSE IF <<e, p>> \in sal.receiptNullifierSet THEN Reject(sal, "AlreadyClaimed")
  ELSE Accept([sal EXCEPT !.receiptNullifierSet = @ \cup {<<e, p>>},
                          !.tokenCommitmentOutbox = Append(@, Token(e, Len(@) + 1)),
                          !.round = @ + 1])

\* the payee e opens leaf p and shows its band within the bounds
proveRange(sal, e, p, lower, upper) ==
  IF /\ p \in 1..Len(sal.paymentTree)
     /\ sal.paymentTree[p].payee = Commit(e)
     /\ lower <= sal.paymentTree[p].band
     /\ sal.paymentTree[p].band <= upper
  THEN Accept(sal) ELSE Reject(sal, "ProofInvalid")

advancePeriodCircuit(sal, caller) ==
  IF ~IsAdmin(caller) THEN Reject(sal, "Unauthorized")
  ELSE Accept([sal EXCEPT !.currentPeriod = @ + 1,
                          !.round = @ + 1])

\* 4.3 Review Registry
importToken(rev, caller, tokenCommitment) ==
  IF ~IsAdmin(caller) THEN Reject(rev, "Unauthorized")
  ELSE Accept([rev EXCEPT !.importedTokenTree = Append(@, tokenCommitment),
                          !.round = @ + 1])

submitReviewCircuit(rev, token, rating) ==
  IF token \notin Range(rev.importedTokenTree) THEN Reject(rev, "ProofInvalid")
  ELSE IF <<token, rev.currentPeriod>> \in rev.reviewNullifierSet THEN Reject(rev, "DoubleReview")
  ELSE IF \E c \in Categories : rating[c] \notin 1..NumScores THEN Reject(rev, "ProofInvalid")
  ELSE Accept([rev EXCEPT !.reviewNullifierSet = @ \cup {<<token, rev.currentPeriod>>},
                          !.ratingCounters = [c \in Categories |->
                               [@[c] EXCEPT ![rating[c] - 1] = @ + 1]],
                          !.totalReviews = @ + 1,
                          !.round = @ + 1])

advanceReviewPeriodCircuit(rev, caller) ==
  IF ~IsAdmin(caller) THEN Reject(rev, "Unauthorized")
  ELSE Accept([rev EXCEPT !.currentPeriod = @ + 1,
                          !.round = @ + 1])

\* ------------------------------------------------------------------------
\* History of the accepted calls
\* ------------------------------------------------------------------------
NotePaid(h, m, band) ==
  [h EXCEPT !.paid[m][band] = @ + 1]

\* the amount the twin run passes where this run passes amount
TwinAmount(amount) == amount + 1

NoteTwin(h, twin) == [h EXCEPT !.twinSalary = twin]

NoteClaimed(h, m, e, p, token) ==
  [h EXCEPT !.reclaimed = IF <<m, e, p>> \in h.claimed THEN @ \cup {<<m, e, p>>} ELSE @,
            !.claimed = @ \cup {<<m, e, p>>},
            !.issued = @ \cup {<<m, token>>}]

NoteOffboarded(h, m, nullifier) ==
  [h EXCEPT !.offboarded = @ \cup {<<m, nullifier>>}]

NoteReviewed(h, m, token, period) ==
  [h EXCEPT !.rereviewed = IF <<m, token, period>> \in h.reviewed
                           THEN @ \cup {<<m, token, period>>} ELSE @,
            !.reviewed = @ \cup {<<m, token, period>>}]

\* what the caller's private state may hold: a payment of the current ledger
\* or a reference to none; a token issued in the current mode or a forged one
PaymentRefs == 1..((IF deployment = "null" THEN localSalary.totalPaymentsProcessed
                                           ELSE Len(salaryLedger.paymentTree)) + 1)
TokensHeld == {x[2] : x \in {y \in hist.issued : y[1] = Mode}} \cup {ForgedToken}

\* ------------------------------------------------------------------------
\* EchoAPI operations.  Each action is one call: the local simulation when
\* no deployment is configured, else the contract call and what the method
\* does around it.  lastCall records the call and what its promise settled
\* to: "ok", or the error it was rejected with.
\* ------------------------------------------------------------------------
setWallet ==
  /\ CanCall
  /\ wallet' = "set"
  /\ lastCall' = Called("setWallet", <<>>, "ok")
  /\ UNCHANGED <<deployment, localOrg, localSalary, localReview, publishedReviews, nextAnonId,
                 periodTrends, chainVars, hist>>
  /\ UNCHANGED heldProof
  /\ UNCHANGED tokenRun
  /\ UNCHANGED handles
  /\ UNCHANGED persisted
  /\ UNCHANGED appVars

\* the contracts just deployed have no history
NoteDeployed(h) ==
  [h EXCEPT !.paid["chain"] = [b \in BandInputs |-> 0],
            !.claimed = {x \in @ : x[1] # "chain"},
            !.reclaimed = {x \in @ : x[1] # "chain"},
            !.issued = {x \in @ : x[1] # "chain"},
            !.offboarded = {x \in @ : x[1] # "chain"},
            !.reviewed = {x \in @ : x[1] # "chain"},
            !.rereviewed = {x \in @ : x[1] # "chain"}]

\* setupProviders throws while no wallet is set; else the three contracts are
\* deployed (deployed: whether deployContract succeeds), their handles and
\* the deployment stored.  One deployment per run: a second one would address
\* other contracts, whose ledgers are not the ones followed here.
deployOrganization ==
  /\ CanCall
  /\ TotalRounds + LocalClaims <= MaxLocalFirst
  /\ deployment = "null"
  /\ \E deployed \in BOOLEAN :
       IF setupProviders(wallet) # "ok"
       THEN /\ lastCall' = Called("deployOrganization", <<>>, setupProviders(wallet))
            /\ UNCHANGED <<deployment, handles, chainVars, hist>>
       ELSE IF ~deployed
       THEN /\ lastCall' = Called("deployOrganization", <<>>, "DeployFailed")
            /\ UNCHANGED <<deployment, handles, chainVars, hist>>
       ELSE /\ lastCall' = Called("deployOrganization", <<>>, "ok")
            /\ deployment' = "set"
            /\ handles' = ContractNames
            /\ orgLedger' = InitOrgLedger
            /\ salaryLedger' = InitSalaryLedger
            /\ reviewLedger' = InitReviewLedger
            /\ hist' = NoteDeployed(hist)
  /\ UNCHANGED <<wallet, localOrg, localSalary, localReview, publishedReviews, nextAnonId,
                 periodTrends>>
  /\ UNCHANGED heldProof
  /\ UNCHANGED tokenRun
  /\ UNCHANGED persisted
  /\ UNCHANGED appVars

\* setupProviders throws while no wallet is set; else the deployment is stored
connectToDeployment ==
  /\ CanCall
  /\ TotalRounds + LocalClaims <= MaxLocalFirst
  /\ IF setupProviders(wallet) # "ok"
     THEN /\ lastCall' = Called("connectToDeployment", <<>>, setupProviders(wallet))
          /\ UNCHANGED <<deployment, handles>>
     ELSE /\ lastCall' = Called("connectToDeployment", <<>>, "ok")
          /\ deployment' = "set"
          /\ handles' = ContractNames
  /\ UNCHANGED <<wallet, localOrg, localSalary, localReview, publishedReviews, nextAnonId,
                 periodTrends, chainVars, hist>>
  /\ UNCHANGED heldProof
  /\ UNCHANGED tokenRun
  /\ UNCHANGED persisted
  /\ UNCHANGED appVars

\* connectToDeployment step by step.  connectBegin runs it up to its first
\* findDeployedContract: setupProviders, then this.deployment = deployment.
connectBegin ==
  /\ CanCall
  /\ TotalRounds + LocalClaims <= MaxLocalFirst
  /\ connectPc = "idle"
  /\ deployment = "null"
  /\ IF setupProviders(wallet) # "ok"
     THEN /\ lastCall' = Called("connectToDeployment", <<>>, setupProviders(wallet))
          /\ UNCHANGED <<deployment, connectPc>>
     ELSE /\ lastCall' = Called("connectToDeployment", <<"begun">>, "ok")
          /\ deployment' = "set"
          /\ connectPc' = "orgContract"
  /\ UNCHANGED <<wallet, localOrg, localSalary, localReview, publishedReviews, nextAnonId,
                 periodTrends, chainVars, hist, handles, heldProof, tokenRun, persisted>>
  /\ UNCHANGED <<toastVars, witnessRun, sessionVars>>

\* the handle awaited after this one
NextHandle(name) ==
  CASE name = "orgContract" -> "salaryContract"
    [] name = "salaryContract" -> "reviewContract"
    [] OTHER -> "idle"

\* the findDeployedContract awaited settles: with the handle, which is
\* stored before the next one is looked up, or with an error, which ends
\* connectToDeployment there
connectFind ==
  /\ connectPc \in ContractNames
  /\ \E found \in BOOLEAN :
       IF found
       THEN /\ handles' = handles \cup {connectPc}
            /\ connectPc' = NextHandle(connectPc)
            /\ lastCall' = Called("connectToDeployment", <<connectPc>>, "ok")
       ELSE /\ connectPc' = "idle"
            /\ lastCall' = Called("connectToDeployment", <<connectPc>>, "ConnectFailed")
            /\ UNCHANGED handles
  /\ UNCHANGED <<deployment, wallet, localOrg, localSalary, localReview, publishedReviews, nextAnonId,
                 periodTrends, chainVars, hist, heldProof, tokenRun, persisted>>
  /\ UNCHANGED <<toastVars, witnessRun, sessionVars>>

addHrOperator(caller, hrPublicKey) ==
  /\ CanCall
  /\ IF deployment = "null"
     THEN /\ localOrg' = localAddHrOperator(localOrg, hrPublicKey)
          /\ lastCall' = Called("addHrOperator", <<caller.role>>, "ok")
          /\ UNCHANGED orgLedger
     ELSE LET t == addApprover(orgLedger, caller, hrPublicKey)
          IN /\ orgLedger' = t.ledger
             /\ lastCall' = Called("addHrOperator", <<caller.role>>, t.result)
             /\ UNCHANGED localOrg
  /\ UNCHANGED <<deployment, wallet, localSalary, localReview, publishedReviews, nextAnonId,
                 periodTrends, salaryLedger, reviewLedger, hist>>
  /\ UNCHANGED heldProof
  /\ UNCHANGED tokenRun
  /\ UNCHANGED handles
  /\ persisted' = IF deployment = "null" THEN persistLocal' ELSE persisted
  /\ UNCHANGED appVars

onboardEmployee(caller, employeeCommitment) ==
  /\ CanCall
  /\ IF deployment = "null"
     THEN /\ localOrg' = localOnboardEmployee(localOrg, employeeCommitment)
          /\ lastCall' = Called("onboardEmployee", <<caller.role>>, "ok")
          /\ UNCHANGED orgLedger
     ELSE \* this.orgContract!.callTx: a TypeError while the handle is null
          LET t == IF "orgContract" \in handles
                   THEN onboardMember(orgLedger, caller, employeeCommitment)
                   ELSE Reject(orgLedger, "TypeError")
          IN /\ orgLedger' = t.ledger
             /\ lastCall' = Called("onboardEmployee", <<caller.role>>, t.result)
             /\ UNCHANGED localOrg
  /\ UNCHANGED <<deployment, wallet, localSalary, localReview, publishedReviews, nextAnonId,
                 periodTrends, salaryLedger, reviewLedger, hist>>
  /\ UNCHANGED heldProof
  /\ UNCHANGED tokenRun
  /\ UNCHANGED handles
  /\ persisted' = IF deployment = "null" THEN persistLocal' ELSE persisted
  /\ UNCHANGED appVars

offboardEmployee(caller, employeeNullifier) ==
  /\ CanCall
  /\ IF deployment = "null"
     THEN /\ localOrg' = localOffboardEmployee(localOrg, employeeNullifier)
          /\ lastCall' = Called("offboardEmployee", <<employeeNullifier, caller.role>>, "ok")
          /\ hist' = NoteOffboarded(hist, "local", employeeNullifier)
          /\ UNCHANGED orgLedger
     ELSE LET t == offboardMember(orgLedger, caller, employeeNullifier)
          IN /\ orgLedger' = t.ledger
             /\ lastCall' = Called("offboardEmployee", <<employeeNullifier, caller.role>>, t.result)
             /\ hist' = IF t.result = "ok" THEN NoteOffboarded(hist, "chain", employeeNullifier)
                        ELSE hist
             /\ UNCHANGED localOrg
  /\ UNCHANGED <<deployment, wallet, localSalary, localReview, publishedReviews, nextAnonId,
                 periodTrends, salaryLedger, reviewLedger>>
  /\ UNCHANGED heldProof
  /\ UNCHANGED tokenRun
  /\ UNCHANGED handles
  /\ persisted' = IF deployment = "null" THEN persistLocal' ELSE persisted
  /\ UNCHANGED appVars

\* the identity e is the one whose secret key the caller's private state holds
proveEmployment(e) ==
  /\ CanCall
  /\ IF deployment = "null"
     THEN lastCall' = Called("proveEmployment", <<e>>,
                             IF localProveEmployment(localOrg) THEN "ok" ELSE "ProofInvalid")
     ELSE lastCall' = Called("proveEmployment", <<e>>, proveMembership(orgLedger, e).result)
  /\ orgLedger' = IF deployment = "null" THEN orgLedger ELSE proveMembership(orgLedger, e).ledger
  /\ UNCHANGED <<apiVars, salaryLedger, reviewLedger, hist>>
  /\ UNCHANGED heldProof
  /\ UNCHANGED tokenRun
  /\ UNCHANGED handles
  /\ UNCHANGED persisted
  /\ UNCHANGED appVars

processSalaryPayment(employeePublicKey, amount, salaryBand) ==
  /\ CanCall
  /\ IF deployment = "null"
     THEN /\ localSalary' = localProcessSalaryPayment(localSalary, amount, salaryBand)
          /\ lastCall' = Called("processSalaryPayment", <<salaryBand>>, "ok")
          /\ hist' = NoteTwin(NotePaid(hist, "local", salaryBand),
                               localProcessSalaryPayment(hist.twinSalary, TwinAmount(amount), salaryBand))
          /\ UNCHANGED salaryLedger
     ELSE \E caller \in Callers :
          LET t == processPayment(salaryLedger, orgLedger, caller, employeePublicKey, salaryBand)
          IN /\ salaryLedger' = t.ledger
             /\ lastCall' = Called("processSalaryPayment", <<salaryBand>>, t.result)
             /\ hist' = IF t.result = "ok"
                        THEN NotePaid(hist, "chain", salaryBand)
                        ELSE hist
             /\ UNCHANGED localSalary
  /\ UNCHANGED <<deployment, wallet, localOrg, localReview, publishedReviews, nextAnonId,
                 periodTrends, orgLedger, reviewLedger>>
  /\ UNCHANGED heldProof
  /\ UNCHANGED tokenRun
  /\ UNCHANGED handles
  /\ persisted' = IF deployment = "null" THEN persistLocal' ELSE persisted
  /\ UNCHANGED appVars

\* the Process Payment button of the salary page, over the local simulation:
\* the band passed to processSalaryPayment is derived from the amount typed
pageProcessPayment(employeePk, amount) ==
  LET salaryBand == deriveSalaryBand(amount)
  IN /\ CanCall
     /\ deployment = "null"
     /\ localSalary' = localProcessSalaryPayment(localSalary, amount, salaryBand)
     /\ lastCall' = Called("processSalaryPayment", <<salaryBand>>, "ok")
     /\ hist' = NoteTwin([hist EXCEPT !.pagePaid = @ \cup {<<amount, salaryBand>>}],
                         localProcessSalaryPayment(hist.twinSalary, TwinAmount(amount), salaryBand))
     /\ UNCHANGED <<deployment, wallet, localOrg, localReview, publishedReviews, nextAnonId,
                    periodTrends, chainVars, handles, heldProof, tokenRun>>
     /\ persisted' = persistLocal'
     /\ UNCHANGED appVars

\* the payee e and the payment p are the secret key and the payment record
\* the caller's private state holds; the local simulation looks at neither
confirmSalaryReceipt(e, p) ==
  /\ CanCall
  /\ IF deployment = "null"
     THEN /\ lastCall' = Called("confirmSalaryReceipt", <<>>,
                                IF localConfirmSalaryReceipt.reviewTokenIssued THEN "ok" ELSE "none")
          /\ hist' = NoteClaimed(hist, "local", e, p, Token(e, p))
          /\ UNCHANGED salaryLedger
     ELSE LET t == confirmReceipt(salaryLedger, e, p)
              outbox == t.ledger.tokenCommitmentOutbox
          IN /\ salaryLedger' = t.ledger
             /\ lastCall' = Called("confirmSalaryReceipt", <<>>, t.result)
             /\ hist' = IF t.result = "ok"
                        THEN NoteClaimed(hist, "chain", e, p, outbox[Len(outbox)])
                        ELSE hist
  /\ UNCHANGED <<apiVars, orgLedger, reviewLedger>>
  /\ UNCHANGED heldProof
  /\ UNCHANGED tokenRun
  /\ UNCHANGED handles
  /\ UNCHANGED persisted
  /\ UNCHANGED appVars

\* the bounds are the caller's; the payee and the payment are those of the
\* caller's private state
proveSalaryRange(e, p, lowerBound, upperBound) ==
  /\ CanCall
  /\ IF deployment = "null"
     THEN LET t == localProveSalaryRange(localSalary, lowerBound, upperBound)
          IN /\ localSalary' = t.salary
             /\ lastCall' = Called("proveSalaryRange", <<>>,
                                   IF t.result THEN "ok" ELSE "ProofInvalid")
             /\ hist' = NoteTwin(hist, localProveSalaryRange(hist.twinSalary, lowerBound, upperBound).salary)
             /\ UNCHANGED salaryLedger
     ELSE LET t == proveRange(salaryLedger, e, p, lowerBound, upperBound)
          IN /\ salaryLedger' = t.ledger
             /\ lastCall' = Called("proveSalaryRange", <<>>, t.result)
             /\ UNCHANGED <<localSalary, hist>>
  /\ UNCHANGED <<deployment, wallet, localOrg, localReview, publishedReviews, nextAnonId,
                 periodTrends, orgLedger, reviewLedger>>
  /\ UNCHANGED heldProof
  /\ UNCHANGED tokenRun
  /\ UNCHANGED handles
  /\ UNCHANGED persisted
  /\ UNCHANGED appVars

\* caller: the role and key the wallet signs with; indexerOk: whether
\* queryContractState returns a state (readSalaryLedger, readReviewLedger throw
\* when it does not)
advancePeriod(caller) ==
  /\ CanCall
  /\ IF deployment = "null"
     THEN /\ periodTrends' = snapshotTrend(periodTrends,
                               trendEntry(localSalary.currentPeriod, localSalary.totalPaymentsProcessed,
                                          localReview.totalReviews, localReview.ratingCounters))
          /\ localSalary' = localAdvancePeriod(localSalary, localReview).salary
          /\ localReview' = localAdvancePeriod(localSalary, localReview).review
          /\ lastCall' = Called("advancePeriod", <<caller.role>>, "ok")
          /\ hist' = NoteTwin(hist, localAdvancePeriod(hist.twinSalary, localReview).salary)
          /\ UNCHANGED salaryLedger
     ELSE \E indexerOk \in BOOLEAN :
          LET t == advancePeriodCircuit(salaryLedger, caller)
          IN \* the snapshot is taken, inside try/catch, before the transaction
             /\ periodTrends' = IF indexerOk
                                THEN snapshotTrend(periodTrends,
                                       trendEntry(salaryLedger.currentPeriod, salaryLedger.totalProcessed,
                                                  reviewLedger.totalReviews, reviewLedger.ratingCounters))
                                ELSE periodTrends
             /\ salaryLedger' = t.ledger
             /\ lastCall' = Called("advancePeriod", <<caller.role>>, t.result)
             /\ UNCHANGED <<localSalary, localReview, hist>>
  /\ UNCHANGED <<deployment, wallet, localOrg, publishedReviews, nextAnonId,
                 orgLedger, reviewLedger>>
  /\ UNCHANGED heldProof
  /\ UNCHANGED tokenRun
  /\ UNCHANGED handles
  /\ persisted' = IF deployment = "null" THEN persistLocal' ELSE persisted
  /\ UNCHANGED appVars

\* token: the review token the caller's private state holds (not looked at by
\* the local simulation)
submitReview(token, ratings) ==
  /\ CanCall
  /\ IF deployment = "null"
     THEN /\ localReview' = localSubmitReview(localReview, ratings)
          /\ publishedReviews' = publishReview(publishedReviews, nextAnonId,
                                               localReview.currentReviewPeriod, ratings)
          /\ nextAnonId' = nextAnonId + 1
          /\ lastCall' = Called("submitReview", <<ratings>>, "ok")
          /\ hist' = NoteReviewed(hist, "local", token, localReview.currentReviewPeriod)
          /\ UNCHANGED reviewLedger
     ELSE LET t == submitReviewCircuit(reviewLedger, token, ratings)
          IN /\ reviewLedger' = t.ledger
             /\ UNCHANGED localReview
             /\ IF t.result # "ok"
                THEN \* callTx rejects: nothing after it runs
                     /\ lastCall' = Called("submitReview", <<ratings>>, t.result)
                     /\ UNCHANGED <<publishedReviews, nextAnonId, hist>>
                ELSE \* anonId takes the counter before readReviewLedger is awaited
                     /\ nextAnonId' = nextAnonId + 1
                     /\ hist' = NoteReviewed(hist, "chain", token, reviewLedger.currentPeriod)
                     /\ \/ /\ publishedReviews' = publishReview(publishedReviews, nextAnonId,
                                                             t.ledger.currentPeriod, ratings)
                           /\ lastCall' = Called("submitReview", <<ratings>>, "ok")
                        \* readReviewLedger throws: the indexer has no state
                        \/ /\ UNCHANGED publishedReviews
                           /\ lastCall' = Called("submitReview", <<ratings>>, "StateNotFound")
  /\ UNCHANGED <<deployment, wallet, localOrg, localSalary, periodTrends, orgLedger, salaryLedger>>
  /\ UNCHANGED heldProof
  /\ UNCHANGED tokenRun
  /\ UNCHANGED handles
  /\ persisted' = IF deployment = "null" THEN persistLocal' ELSE persisted
  /\ UNCHANGED appVars

\* ------------------------------------------------------------------------
\* Transactions EchoAPI has no method for: the relay of a token from the
\* salary contract's outbox into the review contract (4.4) and the advance of
\* the review period.  They are sent to the deployed contracts directly.
\* ------------------------------------------------------------------------
syncReviewToken(caller, k) ==
  /\ CanCall
  /\ deployment = "set"
  /\ k \in 1..Len(salaryLedger.tokenCommitmentOutbox)
  /\ LET t == importToken(reviewLedger, caller, salaryLedger.tokenCommitmentOutbox[k])
     IN /\ reviewLedger' = t.ledger
        /\ lastCall' = Called("syncReviewToken", <<>>, t.result)
  /\ UNCHANGED <<apiVars, orgLedger, salaryLedger, hist>>
  /\ UNCHANGED heldProof
  /\ UNCHANGED tokenRun
  /\ UNCHANGED handles
  /\ UNCHANGED persisted
  /\ UNCHANGED appVars

advanceReviewPeriod(caller) ==
  /\ CanCall
  /\ deployment = "set"
  /\ LET t == advanceReviewPeriodCircuit(reviewLedger, caller)
     IN /\ reviewLedger' = t.ledger
        /\ lastCall' = Called("advanceReviewPeriod", <<>>, t.result)
  /\ UNCHANGED <<apiVars, orgLedger, salaryLedger, hist>>
  /\ UNCHANGED heldProof
  /\ UNCHANGED tokenRun
  /\ UNCHANGED handles
  /\ UNCHANGED persisted
  /\ UNCHANGED appVars

\* the prover runs the witness against the ledger the indexer shows: the
\* first half of a deployed proveEmployment, other transactions may follow it
buildEmploymentProof(e) ==
  /\ deployment = "set"
  /\ LET path == findEmployeePath(orgLedger, e)
     IN /\ heldProof' = IF path = NoProof THEN heldProof ELSE path
        /\ lastCall' = Called("findEmployeePath", <<e>>,
                              IF path = NoProof THEN "EmployeeNotFound" ELSE "ok")
  /\ UNCHANGED <<apiVars, chainVars, hist>>
  /\ UNCHANGED tokenRun
  /\ UNCHANGED handles
  /\ UNCHANGED persisted
  /\ UNCHANGED appVars

\* the second half: the transaction with the path built earlier reaches the ledger
submitEmploymentProof ==
  /\ deployment = "set"
  /\ heldProof # NoProof
  /\ LET t == verifyMembership(orgLedger, heldProof)
     IN /\ orgLedger' = t.ledger
        /\ lastCall' = Called("submitEmploymentProof", <<>>, t.result)
  /\ UNCHANGED <<apiVars, salaryLedger, reviewLedger, heldProof, hist>>
  /\ UNCHANGED tokenRun
  /\ UNCHANGED handles
  /\ UNCHANGED persisted
  /\ UNCHANGED appVars

\* confirmReceipt derives a token commitment from the prover's secret key
\* and what the witness reviewTokenRandomness returns; the random source
\* produces a value it has not produced before
deriveReviewToken ==
  /\ Len(tokenRun.issued) < MaxTokens
  /\ \E entropy \in Randomness \ tokenRun.drawn :
       LET w == reviewTokenRandomness(tokenRun.privateState, entropy)
           tw == reviewTokenRandomness(tokenRun.twinPrivateState, entropy)
       IN tokenRun' =
            [privateState |-> w.privateState,
             issued |-> Append(tokenRun.issued, Token(w.privateState.employeeSecretKey, w.value)),
             drawn |-> tokenRun.drawn \cup {entropy},
             twinPrivateState |-> tw.privateState,
             twinIssued |-> Append(tokenRun.twinIssued,
                                   Token(tw.privateState.employeeSecretKey, tw.value))]
  /\ lastCall' = Called("reviewTokenRandomness", <<>>, "ok")
  /\ UNCHANGED <<apiVars, chainVars, heldProof, hist>>
  /\ UNCHANGED handles
  /\ UNCHANGED persisted
  /\ UNCHANGED appVars

\* the store's serviceUriConfig has changed: the next useEchoAPI builds a
\* new EchoAPI, whose constructor restores the persisted local state, and
\* its effect passes the store's wallet API, if there is one, to it
getOrCreateAPI ==
  /\ deployment' = "null"
  /\ handles' = {}
  /\ wallet' = wallet
  /\ localOrg' = persisted.org
  /\ localSalary' = persisted.salary
  /\ localReview' = persisted.review
  /\ publishedReviews' = persisted.publishedReviews
  /\ periodTrends' = persisted.periodTrends
  /\ nextAnonId' = persisted.nextAnonId
  /\ lastCall' = Called("getOrCreateAPI", <<>>, "ok")
  /\ UNCHANGED <<chainVars, persisted, heldProof, tokenRun, hist>>
  /\ UNCHANGED appVars

\* ------------------------------------------------------------------------
\* The notification store and its toasts.  An id is generated from the clock
\* and a random suffix; ids are taken to be distinct, and numbered in the
\* order they were generated.  Every Toast starts the same five-second timer
\* when it mounts, so the pending timers expire in the order they were
\* started: toastTimers is that order and only its head can fire.
\* NotificationToast is rendered by ClientLayout inside AuthGuard: it is on
\* screen while a signed-in user is on a page other than /login.
\* ------------------------------------------------------------------------
\* notifications.slice(-5)
visibleToasts(ns) == SubSeq(ns, Max(1, Len(ns) - ToastWindow + 1), Len(ns))

\* state.notifications.filter((n) => n.id !== id)
dismissNotification(ns, id) == SelectSeq(ns, LAMBDA n : n # id)

\* the commit after a store update: a Toast whose key is no longer among the
\* five shown unmounts and its cleanup clears the timer, a Toast that stays
\* keeps its timer, a Toast that appears starts one; no Toast is rendered
\* while NotificationToast is not
renderToasts(mounted, ns, timers) ==
  LET shown == IF mounted THEN visibleToasts(ns) ELSE <<>>
      kept == SelectSeq(timers, LAMBDA n : n \in Range(shown))
      fresh == SelectSeq(shown, LAMBDA n : n \notin Range(timers))
  IN kept \o fresh

\* the notifications that are in the store with no toast on screen
Unseen(ns) == Range(ns) \ Range(visibleToasts(ns))

\* a handler adds a notification: a click on a page, or an awaited call it
\* made settling, which may be after the page has gone
addNotification ==
  /\ nextNotifId <= MaxNotifs
  /\ toastsMounted \/ toastLog.everShown
  /\ notifications' = Append(notifications, nextNotifId)
  /\ nextNotifId' = nextNotifId + 1
  /\ toastTimers' = renderToasts(toastsMounted, notifications', toastTimers)
  /\ toastLog' = [toastLog EXCEPT !.queued = @ \cup Unseen(notifications')]
  /\ UNCHANGED toastsMounted
  /\ UNCHANGED toastFrame

\* the user clicks the X of a toast on screen
clickDismiss(id) ==
  /\ toastsMounted
  /\ id \in Range(visibleToasts(notifications))
  /\ notifications' = dismissNotification(notifications, id)
  /\ toastTimers' = renderToasts(toastsMounted, notifications', toastTimers)
  /\ toastLog' = [toastLog EXCEPT !.clicked = @ \cup {id}]
  /\ UNCHANGED <<nextNotifId, toastsMounted>>
  /\ UNCHANGED toastFrame

\* the oldest pending timer expires and its callback dismisses the toast
autoDismiss ==
  /\ toastTimers # <<>>
  /\ notifications' = dismissNotification(notifications, Head(toastTimers))
  /\ toastTimers' = renderToasts(toastsMounted, notifications', Tail(toastTimers))
  /\ toastLog' = [toastLog EXCEPT !.auto = @ \cup {Head(toastTimers)}]
  /\ UNCHANGED <<nextNotifId, toastsMounted>>
  /\ UNCHANGED toastFrame

\* a signed-in user arrives on a page inside AuthGuard: NotificationToast
\* mounts and a Toast is rendered for each of the last five notifications
showToasts ==
  /\ ~toastsMounted
  /\ toastsMounted' = TRUE
  /\ toastTimers' = renderToasts(TRUE, notifications, toastTimers)
  /\ toastLog' = [toastLog EXCEPT !.queued = @ \cup Unseen(notifications), !.everShown = TRUE]
  /\ UNCHANGED <<notifications, nextNotifId>>
  /\ UNCHANGED toastFrame

\* the user logs out: logout() leaves the notifications as they are,
\* AuthGuard renders null and /login is rendered without NotificationToast,
\* so every Toast unmounts and its cleanup clears the timer
hideToasts ==
  /\ toastsMounted
  /\ toastsMounted' = FALSE
  /\ toastTimers' = renderToasts(FALSE, notifications, toastTimers)
  /\ UNCHANGED <<notifications, nextNotifId, toastLog>>
  /\ UNCHANGED toastFrame

\* a circuit asks for a witness: the runtime hands it the private state it
\* holds and keeps the one the witness returns
callWitness(w, arg, entropy) ==
  LET r == witness(w, witnessRun.privateState, witnessRun.ledger, arg, entropy)
  IN /\ witnessRun' = [witnessRun EXCEPT
                         !.privateState = IF r.threw THEN @ ELSE r.privateState,
                         !.witness = w,
                         !.arg = arg,
                         !.threw = r.threw,
                         !.value = IF r.threw THEN <<>> ELSE <<r.value>>]
     /\ UNCHANGED witnessFrame

\* ------------------------------------------------------------------------
\* The session: useAppStore's auth and wallet fields, AuthGuard and
\* ClientLayout, the login page, the Header's logout and WalletConnect.
\* The notifications these handlers add are the addNotification steps above.
\* ------------------------------------------------------------------------
Paths == {"/login", "/", "/salary"}

hydrateAuth_AlwaysRestores(st, restored) ==
  [st EXCEPT !.user = "user", !.isAuthenticated = TRUE, !.authHydrated = TRUE]

\* restored is whether loadSession() returns a user
hydrateAuth(st, restored) ==
  IF restored
  THEN [st EXCEPT !.user = "user", !.isAuthenticated = TRUE, !.authHydrated = TRUE]
  ELSE [st EXCEPT !.authHydrated = TRUE]

login(st) == [st EXCEPT !.user = "user", !.isAuthenticated = TRUE]

logout(st) ==
  [st EXCEPT !.user = "null", !.isAuthenticated = FALSE,
             !.wallet = defaultWallet, !.walletApi = "null", !.deployment = "null"]

disconnectWallet(st) ==
  [st EXCEPT !.wallet = defaultWallet, !.walletApi = "null", !.deployment = "null"]

\* what AuthGuard renders: nothing, or its children
AuthGuard(st, path) ==
  IF ~st.authHydrated THEN "null"
  ELSE IF ~st.isAuthenticated /\ path # "/login" THEN "null"
  ELSE "children"

\* what ClientLayout renders: the login page bare, any other page inside AuthGuard
ClientLayout(st, path) ==
  IF path = "/login" THEN "LoginPage" ELSE AuthGuard(st, path)

UserCanAct == uiLog.steps < MaxUserSteps
Stepped(log) == [log EXCEPT !.steps = @ + 1]

\* AuthGuard's first effect, which runs once AuthGuard is mounted
hydrateEffect ==
  /\ pathname # "/login"
  /\ ~store.authHydrated
  /\ store' = hydrateAuth(store, sessionItem)
  /\ UNCHANGED <<sessionItem, pathname, pendingNav, connectRun, uiLog>>
  /\ UNCHANGED sessionFrame

\* AuthGuard's second effect: router.replace("/login")
redirectEffect ==
  /\ pathname # "/login"
  /\ store.authHydrated /\ ~store.isAuthenticated
  /\ pendingNav # "/login"
  /\ pendingNav' = "/login"
  /\ UNCHANGED <<store, sessionItem, pathname, connectRun, uiLog>>
  /\ UNCHANGED sessionFrame

\* the router completes the navigation asked for last
navigate ==
  /\ pendingNav # "none"
  /\ pathname' = pendingNav
  /\ pendingNav' = "none"
  /\ UNCHANGED <<store, sessionItem, connectRun, uiLog>>
  /\ UNCHANGED sessionFrame

\* the user follows a link of the Sidebar
clickLink(path) ==
  /\ UserCanAct
  /\ ClientLayout(store, pathname) = "children"
  /\ pendingNav' = path
  /\ uiLog' = Stepped(uiLog)
  /\ UNCHANGED <<store, sessionItem, pathname, connectRun>>
  /\ UNCHANGED sessionFrame

\* the user reloads the tab or opens a path by its URL: the store starts
\* again from its initial state and what was awaited is gone
reload(path) ==
  /\ UserCanAct
  /\ store' = InitStore
  /\ pathname' = path
  /\ pendingNav' = "none"
  /\ connectRun' = "idle"
  /\ uiLog' = Stepped(uiLog)
  /\ UNCHANGED sessionItem
  /\ UNCHANGED sessionFrame

\* LoginPage.handleSubmit: authenticate, then login(user) and router.push("/")
submitLogin(valid) ==
  /\ UserCanAct
  /\ ClientLayout(store, pathname) = "LoginPage"
  /\ IF valid
     THEN /\ store' = login(store)
          /\ sessionItem' = TRUE
          /\ pendingNav' = "/"
          /\ uiLog' = [Stepped(uiLog) EXCEPT !.signedIn = TRUE]
     ELSE /\ uiLog' = Stepped(uiLog)
          /\ UNCHANGED <<store, sessionItem, pendingNav>>
  /\ UNCHANGED <<pathname, connectRun>>
  /\ UNCHANGED sessionFrame

\* Header.handleLogout: logout() clears the session, then router.push("/login")
handleLogout ==
  /\ UserCanAct
  /\ ClientLayout(store, pathname) = "children"
  /\ store' = logout(store)
  /\ sessionItem' = FALSE
  /\ pendingNav' = "/login"
  /\ uiLog' = [Stepped(uiLog) EXCEPT !.signedIn = FALSE, !.walletReset = TRUE]
  /\ UNCHANGED <<pathname, connectRun>>
  /\ UNCHANGED sessionFrame

\* WalletConnect.handleConnect up to its first await; lace is whether the
\* connector is found.  The button is there while the wallet is neither
\* connected nor connecting.
handleConnect(lace) ==
  /\ UserCanAct
  /\ ClientLayout(store, pathname) = "children"
  /\ ~store.wallet.isConnected /\ ~store.wallet.isConnecting
  /\ connectRun = "idle"
  /\ IF lace
     THEN /\ store' = [store EXCEPT !.wallet.isConnecting = TRUE]
          /\ connectRun' = "connect"
          /\ uiLog' = [Stepped(uiLog) EXCEPT !.walletReset = FALSE]
     ELSE /\ uiLog' = Stepped(uiLog)
          /\ UNCHANGED <<store, connectRun>>
  /\ UNCHANGED <<sessionItem, pathname, pendingNav>>
  /\ UNCHANGED sessionFrame

\* connector.connect settles: setWalletApi(api), or the catch block
connectSettles ==
  /\ connectRun = "connect"
  /\ \E ok \in BOOLEAN :
       IF ok
       THEN /\ store' = [store EXCEPT !.walletApi = "set"]
            /\ connectRun' = "address"
       ELSE /\ store' = [store EXCEPT !.wallet.isConnecting = FALSE, !.wallet.isConnected = FALSE]
            /\ connectRun' = "idle"
  /\ UNCHANGED <<sessionItem, pathname, pendingNav, uiLog>>
  /\ UNCHANGED sessionFrame

\* api.getUnshieldedAddress settles (getConfiguration's failure is caught):
\* setWallet({isConnected: true, isConnecting: false, ...}), or the catch block
addressSettles ==
  /\ connectRun = "address"
  /\ \E ok \in BOOLEAN :
       store' = [store EXCEPT !.wallet.isConnecting = FALSE, !.wallet.isConnected = ok]
  /\ connectRun' = "idle"
  /\ UNCHANGED <<sessionItem, pathname, pendingNav, uiLog>>
  /\ UNCHANGED sessionFrame

\* WalletConnect.handleDisconnect
handleDisconnect ==
  /\ UserCanAct
  /\ ClientLayout(store, pathname) = "children"
  /\ store.wallet.isConnected
  /\ store' = disconnectWallet(store)
  /\ uiLog' = [Stepped(uiLog) EXCEPT !.walletReset = TRUE]
  /\ UNCHANGED <<sessionItem, pathname, pendingNav, connectRun>>
  /\ UNCHANGED sessionFrame

Next ==
  \/ setWallet
  \/ deployOrganization
  \/ connectToDeployment
  \/ \E caller \in Callers, k \in HrKeys : addHrOperator(caller, k)
  \/ \E caller \in Callers, c \in OnboardInputs : onboardEmployee(caller, c)
  \/ \E caller \in Callers, nf \in Nullifiers : offboardEmployee(caller, nf)
  \/ \E e \in EmployeeIds : proveEmployment(e)
  \/ \E c \in Commitments, a \in AmountInputs, b \in BandInputs :
        processSalaryPayment(c, a, b)
  \/ \E e \in EmployeeIds, p \in PaymentRefs : confirmSalaryReceipt(e, p)
  \/ \E e \in EmployeeIds, p \in PaymentRefs, range \in RangeInputs :
        proveSalaryRange(e, p, range[1], range[2])
  \/ \E caller \in Callers : advancePeriod(caller)
  \/ \E token \in TokensHeld, ratings \in RatingInputs : submitReview(token, ratings)
  \/ \E caller \in Callers, k \in 1..Len(salaryLedger.tokenCommitmentOutbox) :
        syncReviewToken(caller, k)
  \/ \E caller \in Callers : advanceReviewPeriod(caller)

Spec == Init /\ [][Next]_vars

\* The organization ledger with the two halves of a membership proof apart:
\* other callers' transactions come between building a path and submitting it.
ProofNext ==
  \/ setWallet
  \/ connectToDeployment
  \/ \E caller \in Callers, k \in HrKeys : addHrOperator(caller, k)
  \/ \E caller \in Callers, c \in OnboardInputs : onboardEmployee(caller, c)
  \/ \E caller \in Callers, nf \in Nullifiers : offboardEmployee(caller, nf)
  \/ \E e \in EmployeeIds : proveEmployment(e)
  \/ \E e \in EmployeeIds : buildEmploymentProof(e)
  \/ submitEmploymentProof

ProofSpec == Init /\ [][ProofNext]_vars

\* The pages' shared instance: the operations of the Organization page and
\* the payments, with the instance replaced when the endpoints change.
HookNext ==
  \/ setWallet
  \/ connectToDeployment
  \/ \E caller \in Callers, k \in HrKeys : addHrOperator(caller, k)
  \/ \E caller \in Callers, c \in OnboardInputs : onboardEmployee(caller, c)
  \/ \E caller \in Callers, nf \in Nullifiers : offboardEmployee(caller, nf)
  \/ \E c \in Commitments, a \in AmountInputs, b \in BandInputs :
        processSalaryPayment(c, a, b)
  \/ getOrCreateAPI

HookSpec == Init /\ [][HookNext]_vars

\* The witness reviewTokenRandomness on its own: two provers with the same
\* secret key that hold different payments, and the same random source.
TokenInit ==
  /\ deployment = "null"
  /\ wallet = "null"
  /\ localOrg = makeDefaultLocalOrg
  /\ localSalary = makeDefaultLocalSalary
  /\ localReview = makeDefaultLocalReview
  /\ publishedReviews = <<>>
  /\ nextAnonId = FirstAnonId
  /\ periodTrends = <<>>
  /\ orgLedger = InitOrgLedger
  /\ salaryLedger = InitSalaryLedger
  /\ reviewLedger = InitReviewLedger
  /\ persisted = persistLocal
  /\ handles = {}
  /\ heldProof = NoProof
  /\ \E ps \in PrivateStates, twin \in PrivateStates :
       /\ ps.employeeSecretKey = twin.employeeSecretKey
       /\ ps.payments # twin.payments
       /\ tokenRun = StartTokenRun(ps, twin)
  /\ lastCall = NoCall
  /\ hist = InitHist
  /\ AppInit
  /\ witnessRun = StartWitnessRun(NoWitnessState, NoWitnessLedger)

TokenNext == deriveReviewToken

TokenSpec == TokenInit /\ [][TokenNext]_vars

\* The notifications alone: pages add them, the user may click them away,
\* sign out and sign in again, and a timer that is pending does expire.
ToastNext ==
  \/ addNotification
  \/ \E id \in 1..MaxNotifs : clickDismiss(id)
  \/ autoDismiss
  \/ showToasts
  \/ hideToasts

\* The salary page over the local simulation: payments sent by the page,
\* payments passed to the API with any band, and periods advanced.
SalaryPageNext ==
  \/ \E c \in Commitments, a \in PageAmounts : pageProcessPayment(c, a)
  \/ \E c \in Commitments, a \in AmountInputs, b \in BandInputs :
        processSalaryPayment(c, a, b)
  \/ \E caller \in Callers : advancePeriod(caller)

SalaryPageSpec == Init /\ [][SalaryPageNext]_vars

\* Connecting in steps, with the Organization page's calls in between.
ConnectNext ==
  \/ setWallet
  \/ connectBegin
  \/ connectFind
  \/ \E caller \in Callers, k \in HrKeys : addHrOperator(caller, k)
  \/ \E caller \in Callers, c \in OnboardInputs : onboardEmployee(caller, c)
  \/ \E caller \in Callers, nf \in Nullifiers : offboardEmployee(caller, nf)

ConnectSpec == Init /\ [][ConnectNext]_vars

\* The session alone.  The effects run and the router completes; nothing
\* obliges the user to act or the wallet to answer.
SessionNext ==
  \/ hydrateEffect
  \/ redirectEffect
  \/ navigate
  \/ \E path \in Paths \ {"/login"} : clickLink(path)
  \/ \E path \in Paths : reload(path)
  \/ \E valid \in BOOLEAN : submitLogin(valid)
  \/ handleLogout
  \/ \E lace \in BOOLEAN : handleConnect(lace)
  \/ connectSettles
  \/ addressSettles
  \/ handleDisconnect

SessionSpec ==
  Init /\ [][SessionNext]_vars
  /\ WF_vars(hydrateEffect) /\ WF_vars(redirectEffect) /\ WF_vars(navigate)

\* The witnesses alone, called in any order on any private state and ledger.
WitnessInit ==
  /\ deployment = "null"
  /\ wallet = "null"
  /\ localOrg = makeDefaultLocalOrg
  /\ localSalary = makeDefaultLocalSalary
  /\ localReview = makeDefaultLocalReview
  /\ publishedReviews = <<>>
  /\ nextAnonId = FirstAnonId
  /\ periodTrends = <<>>
  /\ orgLedger = InitOrgLedger
  /\ salaryLedger = InitSalaryLedger
  /\ reviewLedger = InitReviewLedger
  /\ persisted = persistLocal
  /\ handles = {}
  /\ heldProof = NoProof
  /\ tokenRun = StartTokenRun(NoPrivateState, NoPrivateState)
  /\ lastCall = NoCall
  /\ hist = InitHist
  /\ AppInit
  /\ \E ps \in WitnessStates, ledger \in WitnessLedgers : witnessRun = StartWitnessRun(ps, ledger)

WitnessNext ==
  \E w \in Witnesses, arg \in LeafInputs, entropy \in Randomness :
     /\ w[2] \in KeyWitnesses \cup PaymentWitnesses \cup {"reviewPeriod"} => arg = 11
     /\ w # <<"salary", "reviewTokenRandomness">> => entropy = 1
     /\ callWitness(w, IF w[2] \in {"findEmployeePath", "findHrPath", "findPaymentPath",
                                      "findReviewTokenPath"} THEN arg ELSE Unset, entropy)

WitnessSpec == WitnessInit /\ [][WitnessNext]_vars

ToastSpec == Init /\ [][ToastNext]_vars /\ WF_vars(autoDismiss)

\* ------------------------------------------------------------------------
\* Properties
\* ------------------------------------------------------------------------
SalaryStateOf(m) ==
  getSalaryState(IF m = "local" THEN "null" ELSE "set", localSalary, salaryLedger)
ReviewStateOf(m) ==
  getReviewState(IF m = "local" THEN "null" ELSE "set", localReview, reviewLedger)

OrgOps == {"addHrOperator", "onboardEmployee", "offboardEmployee"}
SalaryOps == {"processSalaryPayment", "confirmSalaryReceipt", "proveSalaryRange", "advancePeriod"}
ReviewOps == {"submitReview", "syncReviewToken", "advanceReviewPeriod"}

\* every payment is made to a member: payment p of mode m is a payment to e
PaidTo(m, e, p) == e \in Members /\ p \in 1..SalaryStateOf(m).totalPaymentsProcessed

\* the commitments onboarded in mode m
Onboarded(m) == IF m = "local" THEN Range(localOrg.employees) ELSE Range(orgLedger.employeeTree)

\* C1 (no double-claim): the receipt of a payment, by its payee, is not
\* confirmed with success a second time: the second confirmSalaryReceipt
\* for it is rejected with AlreadyClaimed and issues no further review token.
C1_NoDoubleClaim == \A x \in hist.reclaimed : ~PaidTo(x[1], x[2], x[3])

\* C2 (no double-review per period): no issued token is accepted for a
\* second review while the review period is the one of its first review:
\* the second submitReview is rejected with DoubleReview.
C2_NoDoubleReview == \A x \in hist.rereviewed : <<x[1], x[2]>> \notin hist.issued

RECURSIVE SumPaid(_, _)
SumPaid(paid, bands) ==
  IF bands = {} THEN 0
  ELSE LET b == CHOOSE x \in bands : TRUE IN paid[b] + SumPaid(paid, bands \ {b})

\* C3 (counter conservation): in either mode, when every accepted
\* processSalaryPayment named a band in 1..5, totalPaymentsProcessed is the
\* number of accepted calls and the band-k counter is the number of them
\* that named band k, whatever other operations were interleaved.
C3_CounterConservation ==
  \A m \in Modes :
    (\A b \in BandInputs \ (1..NumBands) : hist.paid[m][b] = 0)
    => /\ SalaryStateOf(m).totalPaymentsProcessed = SumPaid(hist.paid[m], BandInputs)
       /\ \A k \in 1..NumBands :
            SalaryStateOf(m).salaryBands[k] = (IF k \in BandInputs THEN hist.paid[m][k] ELSE 0)

\* two accepted local payments naming different bands in 1..5, none outside,
\* and a period advanced in between or after
C3_Witness ==
  /\ hist.paid["local"][2] = 1 /\ hist.paid["local"][5] = 1
  /\ hist.paid["local"][0] = 0 /\ hist.paid["local"][6] = 0
  /\ localSalary.currentPeriod = FirstPeriod + 1

\* C4 (revocation blocks membership): once the nullifier of an onboarded
\* identity has been offboarded, proveEmployment for that identity does not
\* succeed.
C4_RevocationBlocks ==
  (/\ lastCall.op = "proveEmployment"
   /\ Commit(lastCall.arg[1]) \in Onboarded(Mode)
   /\ <<Mode, Nullifier(lastCall.arg[1])>> \in hist.offboarded)
  => lastCall.result \in {"ProofInvalid", "Unauthorized"}

\* C5 (token lifecycle): every accepted review used a token that a
\* successful confirmSalaryReceipt issued; on the deployed contracts the
\* token is moreover one the relay imported into the review ledger.
C5_TokenLifecycle ==
  \A x \in hist.reviewed :
    /\ <<x[1], x[2]>> \in hist.issued
    /\ x[1] = "chain" => x[2] \in Range(reviewLedger.importedTokenTree)

\* C6 (all-or-nothing): a call that fails - is rejected or throws - leaves
\* the published reviews, the anonymous-id counter, the period trends and
\* every ledger as they were before the call.
C6_AllOrNothing ==
  [][lastCall'.result # "ok"
     => UNCHANGED <<publishedReviews, nextAnonId, periodTrends, localOrg, localSalary,
                    localReview, orgLedger, salaryLedger, reviewLedger>>]_vars

\* C7 (submitReview counts): a successful submitReview adds one to the
\* counter (category, score) of each of the five categories and to
\* totalReviews, and leaves the other twenty rating counters as they were.
C7_SubmitReviewCounts ==
  [][(lastCall'.op = "submitReview" /\ lastCall'.result = "ok")
     => LET before == getReviewState(deployment, localReview, reviewLedger)
            after == getReviewState(deployment', localReview', reviewLedger')
            ratings == lastCall'.arg[1]
        IN /\ after.totalReviews = before.totalReviews + 1
           /\ \A c \in Categories, k \in 1..NumScores :
                after.ratingAggregates[c][k] =
                  before.ratingAggregates[c][k] + (IF ratings[c] = k THEN 1 ELSE 0)]_vars

\* a second local review has just been accepted, with scores that differ
\* between the categories
C7_Witness ==
  /\ lastCall.op = "submitReview" /\ lastCall.result = "ok"
  /\ lastCall.arg[1] = Ratings(2, 5, 1, 3, 4)
  /\ localReview.totalReviews = 2

\* C8 (frame): rating counters and totalReviews change only in
\* submitReview; band counters, totalPaymentsProcessed and the payment
\* period only in processSalaryPayment / advancePeriod; the employee and HR
\* lists and the employee count only in onboardEmployee / offboardEmployee /
\* addHrOperator; and no operation of one ledger changes another ledger.
C8_Frame ==
  [][LET op == lastCall'.op
         reviewCounters(r, ledger) ==
           <<r.ratingCounters, r.totalReviews, ledger.ratingCounters, ledger.totalReviews>>
         salaryCounters(sal, ledger) ==
           <<sal.bands, sal.totalPaymentsProcessed, sal.currentPeriod,
             ledger.bands, ledger.totalProcessed, ledger.currentPeriod>>
         orgLists(o, ledger) ==
           <<o.employees, o.hrOperators, o.employeeCount,
             ledger.employeeTree, ledger.approverTree, ledger.employeeCount>>
     IN /\ reviewCounters(localReview, reviewLedger) # reviewCounters(localReview', reviewLedger')
           => op = "submitReview"
        /\ salaryCounters(localSalary, salaryLedger) # salaryCounters(localSalary', salaryLedger')
           => op \in {"processSalaryPayment", "advancePeriod"}
        /\ orgLists(localOrg, orgLedger) # orgLists(localOrg', orgLedger')
           => op \in OrgOps
        /\ op \in OrgOps => UNCHANGED <<localSalary, localReview, salaryLedger, reviewLedger>>
        /\ op \in SalaryOps => UNCHANGED <<localOrg, localReview, orgLedger, reviewLedger>>
        /\ op \in ReviewOps => UNCHANGED <<localOrg, localSalary, orgLedger, salaryLedger>>]_vars

\* a review is accepted while the other two local ledgers hold an entry
C8_Witness ==
  /\ lastCall.op = "submitReview"
  /\ localOrg.employeeCount = 1
  /\ localSalary.totalPaymentsProcessed = 1
  /\ localReview.totalReviews = 1

\* C9 (advancePeriod): a successful advancePeriod adds exactly one to
\* currentPeriod and leaves every band counter, totalPaymentsProcessed and
\* totalPayrollAmount as they were.
C9_AdvancePeriod ==
  [][(lastCall'.op = "advancePeriod" /\ lastCall'.result = "ok")
     => LET before == getSalaryState(deployment, localSalary, salaryLedger)
            after == getSalaryState(deployment', localSalary', salaryLedger')
        IN /\ after.currentPeriod = before.currentPeriod + 1
           /\ after.salaryBands = before.salaryBands
           /\ after.totalPaymentsProcessed = before.totalPaymentsProcessed
           /\ after.totalPayrollAmount = before.totalPayrollAmount]_vars

\* the local period has just been advanced over two processed payments
C9_Witness ==
  /\ lastCall.op = "advancePeriod" /\ lastCall.result = "ok"
  /\ localSalary.currentPeriod = FirstPeriod + 1
  /\ localSalary.totalPaymentsProcessed = 2
  /\ localSalary.totalPayrollAmount = 4

\* C10 (monotonicity): no band counter, rating counter,
\* totalPaymentsProcessed or totalReviews ever decreases; the salary and the
\* review period never decrease and change only in advancePeriod, the
\* review period only in the review ledger's period advance.
C10_Monotonic ==
  [][\/ UNCHANGED <<localSalary, localReview, salaryLedger, reviewLedger>>
     \/ /\ \A i \in 0..(NumBands - 1) :
             /\ localSalary'.bands[i] >= localSalary.bands[i]
             /\ salaryLedger'.bands[i] >= salaryLedger.bands[i]
        /\ \A c \in Categories, i \in 0..(NumScores - 1) :
             /\ localReview'.ratingCounters[c][i] >= localReview.ratingCounters[c][i]
             /\ reviewLedger'.ratingCounters[c][i] >= reviewLedger.ratingCounters[c][i]
        /\ localSalary'.totalPaymentsProcessed >= localSalary.totalPaymentsProcessed
        /\ salaryLedger'.totalProcessed >= salaryLedger.totalProcessed
        /\ localReview'.totalReviews >= localReview.totalReviews
        /\ reviewLedger'.totalReviews >= reviewLedger.totalReviews
        /\ localSalary'.currentPeriod >= localSalary.currentPeriod
        /\ salaryLedger'.currentPeriod >= salaryLedger.currentPeriod
        /\ localReview'.currentReviewPeriod >= localReview.currentReviewPeriod
        /\ reviewLedger'.currentPeriod >= reviewLedger.currentPeriod
        /\ <<localSalary'.currentPeriod, salaryLedger'.currentPeriod>>
             # <<localSalary.currentPeriod, salaryLedger.currentPeriod>>
           => lastCall'.op = "advancePeriod"
        /\ <<localReview'.currentReviewPeriod, reviewLedger'.currentPeriod>>
             # <<localReview.currentReviewPeriod, reviewLedger.currentPeriod>>
           => lastCall'.op = "advanceReviewPeriod"]_vars

\* a payment is processed in the second local period, after a review
C10_Witness ==
  /\ lastCall.op = "processSalaryPayment"
  /\ localSalary.currentPeriod = FirstPeriod + 1
  /\ localSalary.totalPaymentsProcessed = 1
  /\ localReview.totalReviews = 1

\* C11 (stateless proofs): proveEmployment and proveSalaryRange, accepted or
\* rejected, change no field of any ledger: no counter, round, tree or set.
C11_ProofsStateless ==
  [][lastCall'.op \in {"proveEmployment", "proveSalaryRange"}
     => UNCHANGED <<localOrg, localSalary, localReview, orgLedger, salaryLedger, reviewLedger>>]_vars

\* a range proof has just been rejected on a deployed ledger that holds a payment
C11_Witness ==
  /\ lastCall.op = "proveSalaryRange" /\ lastCall.result = "ProofInvalid"
  /\ salaryLedger.totalProcessed = 1

\* C12 (AlreadyRevoked): offboardEmployee with a nullifier that an earlier
\* offboardEmployee revoked fails - with AlreadyRevoked, or Unauthorized for
\* a caller without the role - and leaves the revocation set, the employee
\* count and the round as they were.
C12_AlreadyRevoked ==
  [][(/\ lastCall'.op = "offboardEmployee"
      /\ <<Mode, lastCall'.arg[1]>> \in hist.offboarded)
     => /\ lastCall'.result \in {"AlreadyRevoked", "Unauthorized"}
        /\ UNCHANGED <<localOrg, orgLedger>>]_vars

IsPrefix(a, b) == Len(a) <= Len(b) /\ SubSeq(b, 1, Len(a)) = a

\* C13 (append-only membership trees): every step leaves each leaf of the
\* employee and approver lists at its index - the list before is a prefix of
\* the list after - and an accepted onboardEmployee adds exactly one leaf,
\* the commitment, at the next free index.
C13_AppendOnly ==
  [][/\ IsPrefix(localOrg.employees, localOrg.employees')
     /\ IsPrefix(localOrg.hrOperators, localOrg.hrOperators')
     /\ IsPrefix(orgLedger.employeeTree, orgLedger.employeeTree')
     /\ IsPrefix(orgLedger.approverTree, orgLedger.approverTree')
     /\ (lastCall'.op = "onboardEmployee" /\ lastCall'.result = "ok")
        => \E c \in OnboardInputs :
             IF Mode = "local"
             THEN localOrg'.employees = Append(localOrg.employees, c)
             ELSE orgLedger'.employeeTree = Append(orgLedger.employeeTree, c)]_vars

\* an employee has just been offboarded from a list of two distinct leaves
C13_Witness ==
  /\ lastCall.op = "offboardEmployee" /\ lastCall.result = "ok"
  /\ Len(localOrg.employees) = 2
  /\ localOrg.employees[1] # localOrg.employees[2]

\* C14 (amounts not observable): the salary state anyone can read is, at
\* every step, the same in this run and in the run that makes the same calls
\* with the same payees and bands and other amounts.
C14_AmountsNotObservable ==
  getSalaryState(deployment, localSalary, salaryLedger)
    = getSalaryState(deployment, hist.twinSalary, salaryLedger)

\* the roles the design lets make each role-gated call
AllowedRoles(op) ==
  IF op \in {"onboardEmployee", "offboardEmployee"} THEN {"ADMIN", "HR"} ELSE {"ADMIN"}

\* C15 (role authorization): onboardEmployee, offboardEmployee, addHrOperator
\* and advancePeriod called by a role the design does not allow are rejected
\* with Unauthorized and change no ledger.
C15_RoleAuthorization ==
  [][LET op == lastCall'.op
         role == lastCall'.arg[Len(lastCall'.arg)]
     IN (/\ op \in {"onboardEmployee", "offboardEmployee", "addHrOperator", "advancePeriod"}
         /\ role \notin AllowedRoles(op))
        => /\ lastCall'.result = "Unauthorized"
           /\ UNCHANGED <<localOrg, localSalary, localReview, periodTrends,
                          orgLedger, salaryLedger, reviewLedger>>]_vars

C17_Unlinkability ==
  /\ \A i \in 1..Len(tokenRun.issued), j \in 1..Len(tokenRun.issued) :
       i # j => tokenRun.issued[i] # tokenRun.issued[j]
  /\ tokenRun.issued = tokenRun.twinIssued
  /\ tokenRun.privateState \in PrivateStates

\* two tokens have been derived by a prover that holds two payments
C17_Witness ==
  /\ Len(tokenRun.issued) = 2
  /\ Len(tokenRun.privateState.payments) = 2
  /\ tokenRun.twinPrivateState.payments # tokenRun.privateState.payments

\* what the three getters return in the current state, had the local
\* simulation state been o, sal, r and the ledgers org, sl, rl
Views(o, sal, r, org, sl, rl) ==
  <<getOrganizationState(deployment, o, org),
    getSalaryState(deployment, sal, sl),
    getReviewState(deployment, r, rl)>>

\* local simulation states and ledger states other than the initial ones
OtherLocal ==
  [org |-> localOnboardEmployee(makeDefaultLocalOrg, Commit(1)),
   salary |-> localProcessSalaryPayment(makeDefaultLocalSalary, 2, 2),
   review |-> localSubmitReview(makeDefaultLocalReview, Ratings(5, 4, 3, 4, 5))]
OtherChain ==
  [org |-> [InitOrgLedger EXCEPT !.employeeCount = 1, !.round = 1],
   salary |-> [InitSalaryLedger EXCEPT !.totalProcessed = 1, !.round = 1],
   review |-> [InitReviewLedger EXCEPT !.totalReviews = 1, !.round = 1]]

\* the getters read the state of the current mode only
SeparateViews ==
  Views(localOrg, localSalary, localReview, orgLedger, salaryLedger, reviewLedger)
  = IF deployment = "null"
    THEN Views(localOrg, localSalary, localReview,
               OtherChain.org, OtherChain.salary, OtherChain.review)
    ELSE Views(OtherLocal.org, OtherLocal.salary, OtherLocal.review,
               orgLedger, salaryLedger, reviewLedger)

\* C18 (mode separation): with no deployment no step changes a contract's
\* ledger and the getters return the same for any ledger state; with a
\* deployment set no step changes the local org, salary or review state and
\* the getters return the same for any local state.  (The getters are
\* compared after every step that changes what they could read.)
C18_ModeSeparation ==
  [][/\ deployment = "null" => UNCHANGED chainVars
     /\ deployment = "set" => UNCHANGED <<localOrg, localSalary, localReview>>
     /\ \/ UNCHANGED <<deployment, localOrg, localSalary, localReview, chainVars>>
        \/ SeparateViews']_vars

\* a payment has been accepted by the deployed contract
C18_Witness ==
  /\ deployment = "set"
  /\ lastCall.op = "processSalaryPayment" /\ lastCall.result = "ok"
  /\ salaryLedger.totalProcessed = 1
  /\ localSalary = makeDefaultLocalSalary

\* C19 (wallet before deployment): deployOrganization and connectToDeployment
\* called while no wallet is set fail with the wallet error and leave the
\* instance undeployed, with no contract handle stored and nothing changed;
\* so an instance without a wallet is never deployed.
C19_WalletFirst ==
  [][/\ (lastCall'.op \in {"deployOrganization", "connectToDeployment"} /\ wallet = "null")
        => /\ lastCall'.result = "WalletNotConnected"
           /\ deployment' = "null"
           /\ handles' = {}
           /\ UNCHANGED <<apiVars, chainVars>>
     /\ wallet = "null" => (deployment = "null" /\ handles = {})]_vars

\* a deployment has just been refused for want of a wallet
C19_Witness ==
  /\ lastCall.op = "deployOrganization"
  /\ lastCall.result = "WalletNotConnected"
  /\ wallet = "null"

\* C20 (shared instance): what the getters return is the same before and
\* after the instance is replaced, so every mutation made through the
\* earlier instance is observed through the later one; and the later
\* instance holds the wallet the store holds.
C20_SharedInstance ==
  [][LET read(dep, o, sal, r) ==
           <<getOrganizationState(dep, o, orgLedger),
             getSalaryState(dep, sal, salaryLedger),
             getReviewState(dep, r, reviewLedger)>>
     IN lastCall'.op = "getOrCreateAPI"
        => /\ read(deployment', localOrg', localSalary', localReview')
              = read(deployment, localOrg, localSalary, localReview)
           /\ wallet' = wallet]_vars

\* the notifications a timer or a click has asked to dismiss
Dismissed(log) == log.auto \cup log.clicked

\* C21: every notification in the store is eventually removed with no click
\* needed, also one that waited behind five newer ones; and a step that
\* dismisses a notification, by timer or by click, removes that notification
\* and leaves every other one in place and in order.
C21_AutoDismiss ==
  /\ \A id \in 1..MaxNotifs : (id \in Range(notifications)) ~> (id \notin Range(notifications))
  /\ [][\A id \in Dismissed(toastLog') \ Dismissed(toastLog) :
          /\ id \notin Range(notifications')
          /\ \E i \in 1..Len(notifications) :
                /\ notifications[i] = id
                /\ notifications' = SubSeq(notifications, 1, i - 1)
                                      \o SubSeq(notifications, i + 1, Len(notifications))]_vars

\* what the latest witness called needs is missing from the private state
\* given or from the ledger
RequirementAbsent(run) ==
  LET w == run.witness
  IN CASE w[2] \in KeyWitnesses -> run.given[w[2]] = Unset
       [] w[2] \in PaymentWitnesses -> run.given.payments = <<>>
       [] w = <<"salary", "reviewTokenRandomness">> -> FALSE
       [] w[1] = "review" /\ w[2] \in {"reviewPeriod", "reviewTokenRandomness"} ->
            run.given.reviewTokens = <<>>
       [] OTHER -> \A i \in 1..Len(run.ledger[WitnessField(w[2])]) :
                     run.ledger[WitnessField(w[2])][i] # run.arg

\* C22: after any sequence of witness calls the private state held is the
\* one given at the start, and the latest call threw exactly when the secret
\* key, payment record, review token or Merkle path it needs was absent and
\* returned a value otherwise.
C22_WitnessesPure ==
  /\ witnessRun.privateState = witnessRun.given
  /\ witnessRun.witness # NoWitness =>
       /\ witnessRun.threw <=> RequirementAbsent(witnessRun)
       /\ witnessRun.threw <=> witnessRun.value = <<>>

C22_Witness ==
  /\ witnessRun.witness = <<"salary", "paymentPeriod">>
  /\ ~witnessRun.threw
  /\ Len(witnessRun.given.payments) = 2
  /\ witnessRun.given.adminSecretKey = Unset

\* C23: while the instance is in local simulation (every rating submitted is
\* in 1..5), the five score counters of each category add up to
\* totalReviews, and totalReviews is the number of published reviews.
C23_RatingTotals ==
  deployment = "null" =>
    /\ \A c \in Categories :
         sumCounters(localReview.ratingCounters[c], NumScores - 1) = localReview.totalReviews
    /\ localReview.totalReviews = Len(publishedReviews)

\* two local reviews with different scores are published, and the period
\* has been advanced since the first
C23_Witness ==
  /\ deployment = "null"
  /\ Len(publishedReviews) = 2
  /\ publishedReviews[1].ratings # publishedReviews[2].ratings
  /\ localSalary.currentPeriod > FirstPeriod

\* the band of 1..5 nearest to the band passed
Clamped(salaryBand) ==
  IF salaryBand < 1 THEN 1 ELSE IF salaryBand > NumBands THEN NumBands ELSE salaryBand

\* C24: in local simulation the band counters add up to
\* totalPaymentsProcessed in every state, every processSalaryPayment adds one
\* to the counter of the band passed, clamped into 1..5, and to
\* totalPaymentsProcessed and leaves the other counters alone; and the band
\* the salary page derives from the amount is in 1..5 and does not decrease
\* as the amount grows.
C24_BandTotals ==
  /\ [](/\ sumCounters(localSalary.bands, NumBands - 1) = localSalary.totalPaymentsProcessed
        /\ \A x \in hist.pagePaid : x[2] \in 1..NumBands
        /\ \A x, y \in hist.pagePaid : x[1] <= y[1] => x[2] <= y[2])
  /\ [][lastCall'.op = "processSalaryPayment" =>
          /\ localSalary'.totalPaymentsProcessed = localSalary.totalPaymentsProcessed + 1
          /\ localSalary'.bands =
               [localSalary.bands EXCEPT ![Clamped(lastCall'.arg[1]) - 1] = @ + 1]]_vars

\* the page has sent payments of two different bands, and a payment with a
\* band above 5 was passed to the API
C24_Witness ==
  /\ \E x, y \in hist.pagePaid : x[2] < y[2]
  /\ localSalary.totalPaymentsProcessed = 3
  /\ lastCall.op = "processSalaryPayment" /\ lastCall.arg[1] = 6

\* C25: whenever isDeployed() is true (this.deployment is set), the three
\* contract handles are set, also while connectToDeployment is in progress
\* and after one of its lookups has failed.
C25_HandlesSet == deployment = "set" => handles = ContractNames

\* C26: a page other than /login is on screen only when auth has been
\* hydrated and the user is authenticated, having signed in and not signed
\* out since; and once auth is hydrated, an unauthenticated user on a path
\* other than /login arrives at /login.
C26_AuthGuard ==
  /\ [](ClientLayout(store, pathname) = "children" =>
          store.authHydrated /\ store.isAuthenticated /\ uiLog.signedIn)
  /\ (store.authHydrated /\ ~store.isAuthenticated /\ pathname # "/login") ~> (pathname = "/login")

\* a user who had signed in has logged out and has been taken to /login
C26_Witness ==
  /\ pathname = "/login"
  /\ store.authHydrated /\ ~store.isAuthenticated
  /\ ~uiLog.signedIn /\ uiLog.steps >= 3
  /\ ~sessionItem

\* the wallet fields of the store as logout and disconnectWallet leave them
Disconnected(st) ==
  /\ ~st.wallet.isConnected
  /\ ~st.wallet.isConnecting
  /\ st.walletApi = "null"
  /\ st.deployment = "null"

\* C27: after logout or disconnectWallet, and until a connect is started
\* afterwards, the store's wallet state is disconnected.
C27_StaysDisconnected == uiLog.walletReset => Disconnected(store)

====
